---- MODULE Spec2Model ----
(***************************************************************************)
(* Alert rule evaluation and dispatch of the serverless IoT event          *)
(* platform: the condition evaluator (schemas/alert.ts), the alert         *)
(* processor Lambda (functions/alert-processor.ts), the event processor    *)
(* Lambda that precedes it on the event bus, and the DynamoDB alerts table *)
(* and EventBridge rules that the CDK stack (infrastructure/app.ts) wires  *)
(* between them.                                                           *)
(*                                                                         *)
(* JavaScript strings are sequences of one-character strings, so that      *)
(* String(), Number() and String.prototype.includes are computed and not   *)
(* assumed.  JavaScript values are tagged records [t, v].                  *)
(***************************************************************************)
EXTENDS Integers, Sequences, FiniteSets

VARIABLES
    evConditions,   \* evaluateAlertConditions: the `conditions` argument
    evData,         \* evaluateAlertConditions: the `data` argument
    evResult,       \* evaluateAlertConditions: the returned boolean
    evPc,           \* "input" before the call, "done" after it
    alertsTable,    \* the DynamoDB alerts table: a set of items, one per alertId
    now,            \* Date.now(), in milliseconds
    uuidCount,      \* how many ids uuidv4() has handed out to createAlertInstance
    ruleCount,      \* how many ids uuidv4() has handed out to createAlertRule
    starts,         \* how many times the alert processor has been invoked
    pc,             \* per alert-processor invocation: where the handler stands
    event,          \* per invocation: event.detail.event, the reading
    alertRules,     \* per invocation: the array getAlertRules returned
    idx,            \* per invocation: position of the for loop in alertRules
    alertInstance,  \* per invocation: the instance being stored and notified
    notifications,  \* alert.notification events accepted by the event bus
    sent,           \* channel sends the notification handler has settled
    ruleStore,      \* history: rule items written by rule management
    persisted,      \* history: items the puts of storeAlertInstance added
    obs,            \* history, per invocation: what the pass did to each rule
    eventsTable,    \* the DynamoDB events table: items keyed by (id, timestamp)
    eventBucket,    \* the S3 bucket of stored events: object keys
    delivered,      \* per Lambda target: bus entries its EventBridge rule matched
    responses,      \* what the event processor returned: [eventId, success]
    nRule,          \* notification handler: event.detail.rule, {} when idle
    nPc,            \* notification handler: "idle", "await", "resolved", "rejected"
    nSenders,       \* notification handler: per channel, the state of its promise
    nSends,         \* notification handler: calls made to SES and to the webhook
    connections,    \* websocket handler: the Map from connection id to ConnectionInfo
    connCount,      \* how many connection ids API Gateway has handed out
    wsMessage,      \* history: the last client message handled, with its connection
    wsResponse,     \* history: the responses posted for that message
    replays,        \* the calls of startReplay, in the order they were made
    broadcast,      \* the broadcastEvent under way: its sends, per connection
    ckTable,        \* cooldown check: the instance items of the alerts table
    ckNow,          \* cooldown check: Date.now(), in milliseconds
    ckCount,        \* cooldown check: ids uuidv4() has handed out
    ckTurn,         \* history: the rule, device, time and table of the last loop turn
    ckLast,         \* history: what getLastAlertForRule returned in that turn
    ckCreated,      \* history: whether that turn created an instance
    activeAlerts,   \* dashboard alert store: the AlertInstance list
    isLoading,      \* dashboard alert store: isLoading
    storeError,     \* dashboard alert store: error, {} for null
    storeCalls,     \* dashboard alert store: the requests awaiting their response
    storeResolved,  \* history: the ids resolveAlert has removed
    epTable,        \* event processor: the events table, items keyed by (id, timestamp)
    epClock,        \* event processor: Date.now()
    epFirst,        \* history: per event id, the item its first delivery stored
    epResponses,    \* history: per delivery, the EventProcessorResponse
    opLog,          \* history: the handler calls, in the order of their synchronous parts
    adStatus,       \* adapter: this.status
    adInterval,     \* adapter: this.config.interval
    intervalId,     \* adapter: this.intervalId, as an option
    adTimers,       \* adapter: the intervals set and not cleared
    adCalls,        \* adapter: the calls of start, stop and restart and their position
    lastRun,        \* adapter: the timer whose runWork set this.lastRun, as an option
    wsSockets,      \* dashboard: the WebSocket objects created and their readyState
    socket,         \* dashboard: the store's socket, as an option
    isConnected,    \* dashboard: the store's isConnected
    isConnecting,   \* dashboard: the store's isConnecting
    reconnects,     \* dashboard: the pending timeouts set by onclose
    lastCall        \* history: the last call the application made, connect or disconnect

evalVars == <<evConditions, evData, evResult, evPc>>

alertVars == <<alertsTable, now, uuidCount, ruleCount, starts, pc, event, alertRules, idx,
               alertInstance, notifications, sent, ruleStore, persisted, obs>>

ingestVars == <<eventsTable, eventBucket, delivered, responses>>

notifyVars == <<nRule, nPc, nSenders, nSends>>

wsVars == <<connections, connCount, wsMessage, wsResponse, replays, broadcast>>

checkVars == <<ckTable, ckNow, ckCount, ckTurn, ckLast, ckCreated>>

storeVars == <<activeAlerts, isLoading, storeError, storeCalls, storeResolved>>

idemVars == <<epTable, epClock, epFirst, epResponses>>

taskVars == <<opLog>>

adapterVars == <<adStatus, adInterval, intervalId, adTimers, adCalls, lastRun>>

frontVars == <<wsSockets, socket, isConnected, isConnecting, reconnects, lastCall>>

vars == <<evalVars, alertVars, ingestVars, notifyVars, wsVars, checkVars,
        storeVars, idemVars, taskVars, adapterVars, frontVars>>

\* What the steps of one component leave alone.
AlertStep == UNCHANGED <<evalVars, ingestVars, notifyVars, wsVars, checkVars,
        storeVars, idemVars, taskVars, adapterVars, frontVars>>
EvalStep == UNCHANGED <<alertVars, ingestVars, notifyVars, wsVars, checkVars,
        storeVars, idemVars, taskVars, adapterVars, frontVars>>
IngestStep == UNCHANGED <<evalVars, alertVars, notifyVars, wsVars, checkVars,
        storeVars, idemVars, taskVars, adapterVars, frontVars>>
NotifyStep == UNCHANGED <<evalVars, alertVars, ingestVars, wsVars, checkVars,
        storeVars, idemVars, taskVars, adapterVars, frontVars>>
WsStep == UNCHANGED <<evalVars, alertVars, ingestVars, notifyVars, checkVars,
        storeVars, idemVars, taskVars, adapterVars, frontVars>>
CheckStep == UNCHANGED <<evalVars, alertVars, ingestVars, notifyVars, wsVars,
        storeVars, idemVars, taskVars, adapterVars, frontVars>>
StoreStep == UNCHANGED <<evalVars, alertVars, ingestVars, notifyVars, wsVars,
        checkVars, idemVars, taskVars, adapterVars, frontVars>>
IdemStep == UNCHANGED <<evalVars, alertVars, ingestVars, notifyVars, wsVars,
        checkVars, storeVars, taskVars, adapterVars, frontVars>>
TaskStep == UNCHANGED <<evalVars, alertVars, ingestVars, notifyVars, wsVars,
        checkVars, storeVars, idemVars, adapterVars, frontVars>>
AdapterStep == UNCHANGED <<evalVars, alertVars, ingestVars, notifyVars,
        wsVars, checkVars, storeVars, idemVars, taskVars, frontVars>>
FrontStep == UNCHANGED <<evalVars, alertVars, ingestVars, notifyVars, wsVars,
        checkVars, storeVars, idemVars, taskVars, adapterVars>>

-----------------------------------------------------------------------------
(* JavaScript values                                                       *)

Num(n) == [t |-> "number", v |-> n]
Str(s) == [t |-> "string", v |-> s]
Bool(b) == [t |-> "boolean", v |-> b]
JsNull == [t |-> "null"]

Digits == <<"0", "1", "2", "3", "4", "5", "6", "7", "8", "9">>

IsDigit(c) == \E i \in 1..10 : Digits[i] = c

DigitVal(c) == (CHOOSE i \in 1..10 : Digits[i] = c) - 1

\* The value of a string of decimal digits, most significant first.
RECURSIVE DigitsToNat(_)
DigitsToNat(s) ==
    IF Len(s) = 0 THEN 0
    ELSE 10 * DigitsToNat(SubSeq(s, 1, Len(s) - 1)) + DigitVal(s[Len(s)])

\* The decimal digits of a natural number, as String(n) prints them.
RECURSIVE NatToString(_)
NatToString(n) ==
    IF n < 10 THEN <<Digits[n + 1]>>
    ELSE NatToString(n \div 10) \o <<Digits[(n % 10) + 1]>>

\* Number(x): [nan |-> TRUE] stands for NaN.  The empty string converts to 0,
\* a string of digits to its value, any other string to NaN; true is 1,
\* false is 0.
JsNumber(x) ==
    CASE x.t = "number" -> [nan |-> FALSE, n |-> x.v]
      [] x.t = "boolean" -> [nan |-> FALSE, n |-> IF x.v THEN 1 ELSE 0]
      [] x.t = "string" ->
            IF \A i \in 1..Len(x.v) : IsDigit(x.v[i])
            THEN [nan |-> FALSE, n |-> DigitsToNat(x.v)]
            ELSE [nan |-> TRUE]
      [] OTHER -> [nan |-> FALSE, n |-> 0]

\* String(x)
JsString(x) ==
    CASE x.t = "string" -> x.v
      [] x.t = "number" -> NatToString(x.v)
      [] x.t = "boolean" ->
            IF x.v THEN <<"t", "r", "u", "e">> ELSE <<"f", "a", "l", "s", "e">>
      [] OTHER -> <<"n", "u", "l", "l">>

\* String.prototype.includes
Includes(s, sub) ==
    \E i \in 0..(Len(s) - Len(sub)) : SubSeq(s, i + 1, i + Len(sub)) = sub

\* a === b: same type and same value.
StrictEquals(a, b) == a.t = b.t /\ (a.t = "null" \/ a.v = b.v)

\* a < b on numbers: false as soon as one side is NaN.
NumLess(a, b) == ~a.nan /\ ~b.nan /\ a.n < b.n
NumLessEq(a, b) == ~a.nan /\ ~b.nan /\ a.n <= b.n

-----------------------------------------------------------------------------
(* schemas/alert.ts: evaluateAlertConditions                               *)

\* data[condition.field]: the payload is a function from the field names it
\* holds to their values; a field it does not hold reads as undefined.
HasField(data, field) == field \in DOMAIN data

\* A guard that tests for undefined only, to compare the fail-closed
\* properties against.
IsMissingUndefinedOnly(data, field) == ~HasField(data, field)

\* fieldValue === undefined || fieldValue === null
IsMissing(data, field) == ~HasField(data, field) \/ data[field].t = "null"

\* An operator table in which gt admits equality and contains compares whole
\* strings, to compare the properties of the evaluator against.
OperatorHoldsLoose(operator, fieldValue, value) ==
    CASE operator \in {"gt", "gte"} -> NumLessEq(JsNumber(value), JsNumber(fieldValue))
      [] operator \in {"lt", "lte"} -> NumLessEq(JsNumber(fieldValue), JsNumber(value))
      [] operator = "eq" -> StrictEquals(fieldValue, value)
      [] operator = "neq" -> ~StrictEquals(fieldValue, value)
      [] operator = "contains" -> JsString(fieldValue) = JsString(value)
      [] operator = "not_contains" -> JsString(fieldValue) # JsString(value)
      [] OTHER -> FALSE

\* The switch on condition.operator in the callback of conditions.every(...).
OperatorHolds(operator, fieldValue, value) ==
    CASE operator = "gt" -> NumLess(JsNumber(value), JsNumber(fieldValue))
      [] operator = "gte" -> NumLessEq(JsNumber(value), JsNumber(fieldValue))
      [] operator = "lt" -> NumLess(JsNumber(fieldValue), JsNumber(value))
      [] operator = "lte" -> NumLessEq(JsNumber(fieldValue), JsNumber(value))
      [] operator = "eq" -> StrictEquals(fieldValue, value)
      [] operator = "neq" -> ~StrictEquals(fieldValue, value)
      [] operator = "contains" -> Includes(JsString(fieldValue), JsString(value))
      [] operator = "not_contains" ->
            ~Includes(JsString(fieldValue), JsString(value))
      [] OTHER -> FALSE

EvalCondition(condition, data) ==
    IF IsMissing(data, condition.field) THEN FALSE
    ELSE OperatorHolds(condition.operator, data[condition.field], condition.value)

\* Array.prototype.every: left to right, stopping at the first false.
RECURSIVE Every(_, _, _)
Every(conditions, data, i) ==
    IF i > Len(conditions) THEN TRUE
    ELSE IF ~EvalCondition(conditions[i], data) THEN FALSE
    ELSE Every(conditions, data, i + 1)

evaluateAlertConditions(conditions, data) == Every(conditions, data, 1)

-----------------------------------------------------------------------------
(* Bounds                                                                  *)

MaxConds == 2       \* longest condition list handed to the evaluator
MaxTicks == 1       \* clock ticks of one second
MaxUuid == 2        \* alert instances created
MaxRules == 1       \* rules created through POST /alerts
MaxStarts == 3      \* invocations of the alert processor, one after another
MaxOverlap == 2     \* invocations of the alert processor that may overlap

-----------------------------------------------------------------------------
(* Items, ids and inputs of the alert pipeline                             *)

D1 == <<"d", "1">>
D2 == <<"d", "2">>

\* ':rulePrefix': 'rule_'
RulePrefix == <<"r", "u", "l", "e", "_">>

\* uuidv4(): the n-th id handed out to createAlertInstance and to
\* createAlertRule; hexadecimal digits and dashes only.
Uuid(n) == <<"a", "-">> \o NatToString(n)
RuleUuid(n) == <<"b", "-">> \o NatToString(n)

\* Concurrent invocations of the alert processor Lambda.
Passes == {1, 2}

Has(item, attr) == attr \in DOMAIN item

Merge(f, g) ==
    [x \in (DOMAIN f) \cup (DOMAIN g) |-> IF x \in DOMAIN f THEN f[x] ELSE g[x]]

\* An attribute that is written only when the option holds a value: DynamoDB
\* items carry no attribute for an undefined JavaScript property.
Attr(name, opt) ==
    IF opt = {} THEN <<>> ELSE [x \in {name} |-> CHOOSE v \in opt : TRUE]

ValueAbove40 == <<[field |-> "value", operator |-> "gt", value |-> Num(40)]>>

Body(deviceId, severity, channels, recipients, url, cooldown) ==
    [conditions |-> ValueAbove40, deviceId |-> deviceId, severity |-> severity,
     notificationChannels |-> channels, emailRecipients |-> recipients,
     webhookUrl |-> url, cooldownPeriod |-> cooldown]

\* Rule definitions; an absent property is the empty option.
ScopedCooldown ==
    Body({D1}, {"critical"}, {<<"ui", "email">>}, {<<"ops">>}, {}, {1})
GlobalDefaults == Body({}, {}, {}, {}, {}, {})
ScopedZero == Body({D1}, {"warning"}, {<<"webhook">>}, {}, {"hook"}, {0})
OtherDevice == Body({D2}, {"info"}, {<<"ui">>}, {}, {}, {})
NoConditions == [GlobalDefaults EXCEPT !.conditions = <<>>]

\* Rule items seeded under the 'rule_' keys: <<key, body, enabled>>.
SeedInputs ==
    { <<RulePrefix \o <<"1">>, ScopedCooldown, TRUE>>,
      <<RulePrefix \o <<"1">>, ScopedCooldown, FALSE>>,
      <<RulePrefix \o <<"1">>, ScopedZero, TRUE>>,
      <<RulePrefix \o <<"2">>, GlobalDefaults, TRUE>>,
      <<RulePrefix \o <<"2">>, OtherDevice, TRUE>> }

\* Request bodies of POST /alerts.
RuleBodies == {GlobalDefaults, NoConditions}

Reading(id, type, source, deviceId, value) ==
    [id |-> id, type |-> type, source |-> source,
     data |-> [deviceId |-> Str(deviceId), value |-> Num(value)]]

\* event.detail.event of the invocations of the alert processor.
Readings ==
    { Reading("e1", "sensor_reading", "iot_sensors", D1, 45),
      Reading("e2", "sensor_reading", "iot_sensors", D1, 30),
      Reading("e3", "sensor_reading", "iot_devices", D1, 45),
      Reading("e4", "device_status", "iot_sensors", D1, 45) }

NoReading == Reading("none", "none", "none", <<>>, 0)

-----------------------------------------------------------------------------
(* schemas/alert.ts: rules and instances                                   *)

createAlertRule(id, body) ==
    Merge([alertId |-> id,
           conditions |-> body.conditions,
           severity |-> IF body.severity = {} THEN "info"
                        ELSE CHOOSE v \in body.severity : TRUE,
           enabled |-> TRUE,
           notificationChannels |->
               IF body.notificationChannels = {} THEN <<"ui">>
               ELSE CHOOSE v \in body.notificationChannels : TRUE],
          Merge(Attr("deviceId", body.deviceId),
                Merge(Attr("emailRecipients", body.emailRecipients),
                      Merge(Attr("webhookUrl", body.webhookUrl),
                            Attr("cooldownPeriod", body.cooldownPeriod)))))

\* z.string().uuid(): hexadecimal digits and dashes; the lengths of the
\* groups are left out.
IsUuid(s) ==
    /\ Len(s) >= 1
    /\ \A i \in 1..Len(s) :
          IsDigit(s[i]) \/ s[i] \in {"a", "b", "c", "d", "e", "f", "-"}

\* AlertRuleSchema.parse: whether the rule passes.
validateAlertRule(rule) ==
    /\ IsUuid(rule.alertId)
    /\ Len(rule.conditions) >= 1
    /\ Len(rule.notificationChannels) >= 1
    /\ Has(rule, "cooldownPeriod") => rule.cooldownPeriod >= 0

createAlertInstance(id, alertId, severity, deviceId, eventId, at) ==
    [alertInstanceId |-> id, alertId |-> alertId, deviceId |-> deviceId,
     severity |-> severity, triggeredAt |-> at, status |-> "active",
     eventId |-> eventId]

-----------------------------------------------------------------------------
(* The alerts table (infrastructure/app.ts): partition key alertId, no sort *)
(* key; global secondary index DeviceIndex on (deviceId, triggeredAt).     *)

Keys(table) == {x.alertId : x \in table}

\* PutCommand without a condition: the item replaces the one under its key.
PutItem(table, item) == {x \in table : x.alertId # item.alertId} \cup {item}

IsInstance(item) == Has(item, "alertInstanceId")

RuleItems(table) == {x \in table : ~IsInstance(x)}

InstanceItems(table) == {x \in table : IsInstance(x)}

\* The items DeviceIndex holds for a device: those with both index keys.
DeviceIndex(table, deviceId) ==
    {x \in table : Has(x, "deviceId") /\ Has(x, "triggeredAt")
                   /\ x.deviceId = deviceId}

BeginsWith(s, prefix) ==
    Len(s) >= Len(prefix) /\ SubSeq(s, 1, Len(prefix)) = prefix

\* Every order in which a scan may return a set of items.
Orders(S) ==
    {s \in [1..Cardinality(S) -> S] :
        \A i, j \in 1..Cardinality(S) : s[i] = s[j] => i = j}

-----------------------------------------------------------------------------
(* infrastructure/app.ts: the event patterns of the EventBridge rules       *)

MatchesEventProcessingRule(entry) ==
    /\ entry.Source \in {"iot_sensors", "iot_devices", "manual"}
    /\ entry.DetailType = "event"

MatchesAlertProcessingRule(entry) ==
    /\ entry.Source \in {"iot_sensors", "iot_devices"}
    /\ entry.DetailType = "event.processed"

MatchesNotificationRule(entry) ==
    /\ entry.Source \in {"iot_sensors", "iot_devices"}
    /\ entry.DetailType = "alert.notification"

-----------------------------------------------------------------------------
(* functions/alert-processor.ts                                            *)

\* A filter that lets an event through on its type or on its source alone,
\* to compare the properties of the dispatcher against.
IsTelemetryEither(e) == e.type = "sensor_reading" \/ e.source = "iot_sensors"

\* The negation of the guard of "Skipping non-telemetry event".
IsTelemetry(e) == e.type = "sensor_reading" /\ e.source = "iot_sensors"

DeviceIdOf(e) == e.data["deviceId"].v

\* The scan with begins_with(alertId, :rulePrefix), then the filter by device.
getAlertRules(table, deviceId) ==
    LET rules == {x \in table : BeginsWith(x.alertId, RulePrefix)}
    IN  IF deviceId # <<>>
        THEN {x \in rules : ~Has(x, "deviceId") \/ x.deviceId = deviceId}
        ELSE rules

\* The query on DeviceIndex, newest first, Limit 1, alertId as a filter: the
\* limit bounds the items read, the filter is applied to what was read.  The
\* result is an option; items with equal triggeredAt may come in either order.
getLastAlertForRule(table, alertId, deviceId) ==
    IF deviceId = <<>> THEN {{}}
    ELSE LET index == DeviceIndex(table, deviceId)
             newest == {x \in index :
                           \A y \in index : y.triggeredAt <= x.triggeredAt}
         IN  IF newest = {} THEN {{}}
             ELSE {IF x.alertId = alertId THEN {x} ELSE {} : x \in newest}

\* if (!rule.enabled) continue
IsEnabled(rule) == Has(rule, "enabled") /\ rule.enabled

\* The negation of: rule.deviceId && rule.deviceId !== deviceId
InScope(rule, deviceId) ==
    ~(Has(rule, "deviceId") /\ rule.deviceId # <<>> /\ rule.deviceId # deviceId)

\* A pass that never skips a rule for its cooldown, to compare the
\* properties of the cooldown of global rules against.
NeverInCooldown(rule, lastAlert, at) == FALSE

\* lastAlert && rule.cooldownPeriod && Date.now() - triggeredAt < period * 1000
InCooldown(rule, lastAlert, at) ==
    /\ lastAlert # {}
    /\ Has(rule, "cooldownPeriod") /\ rule.cooldownPeriod # 0
    /\ \E last \in lastAlert : at - last.triggeredAt < rule.cooldownPeriod * 1000

\* The item storeAlertInstance puts.
StoredItem(instance) ==
    Merge(instance,
          [pk |-> instance.alertInstanceId,
           sk |-> <<"A", "L", "E", "R", "T", "#">> \o instance.alertId])

\* The entry triggerNotification puts on the event bus.
triggerNotification(instance, rule) ==
    [Source |-> "iot_sensors", DetailType |-> "alert.notification",
     Detail |-> [alertInstance |-> instance, rule |-> rule]]


\* The Lambda functions the EventBridge rules target.
Targets == {"eventProcessor", "alertProcessor"}

-----------------------------------------------------------------------------
(* History kept beside the program state, to state the properties          *)

NoObs ==
    [applicable |-> {}, evaluated |-> {}, decided |-> {},
     overlapped |-> FALSE, storeFailed |-> FALSE]

Active(p) == pc[p] \in {"loop", "store", "notify"}

\* The handler has returned or thrown and the invocation is not yet over.
Finished(p) == pc[p] \in {"returned", "threw"}

Quiet == \A p \in Passes : ~Finished(p)

Cooldown(rule) == IF Has(rule, "cooldownPeriod") THEN rule.cooldownPeriod ELSE 0

\* An instance of the rule for the device was persisted less than the rule's
\* cooldown before `at`.
Prior(rule, deviceId, at) ==
    \E x \in persisted :
        /\ x.alertId = rule.alertId
        /\ x.deviceId = deviceId
        /\ at - x.triggeredAt < Cooldown(rule) * 1000

\* What a pass decided for a rule whose conditions match the reading.
Decision(rule, deviceId, at, loaded, created) ==
    [alertId |-> rule.alertId, cooldown |-> Cooldown(rule),
     prior |-> Prior(rule, deviceId, at), loaded |-> loaded, created |-> created]

-----------------------------------------------------------------------------
(* Actions of the alert pipeline                                           *)

AlertInit ==
    /\ alertsTable = {}
    /\ now = 1000
    /\ uuidCount = 0
    /\ ruleCount = 0
    /\ starts = 0
    /\ pc = [p \in Passes |-> "idle"]
    /\ event = [p \in Passes |-> NoReading]
    /\ alertRules = [p \in Passes |-> <<>>]
    /\ idx = [p \in Passes |-> 1]
    /\ alertInstance = [p \in Passes |-> {}]
    /\ notifications = {}
    /\ sent = {}
    /\ ruleStore = {}
    /\ persisted = {}
    /\ obs = [p \in Passes |-> NoObs]

Tick ==
    /\ Quiet
    /\ now < 1000 + MaxTicks * 1000
    /\ now' = now + 1000
    /\ AlertStep
    /\ UNCHANGED <<alertsTable, uuidCount, ruleCount, starts, pc, event, alertRules, idx,
                   alertInstance, notifications, sent, ruleStore, persisted, obs>>

\* A rule item written straight into the table under the key convention the
\* scan of getAlertRules reads ("stored with alertId starting with 'rule_'").
SeedRule(seed) ==
    LET key == seed[1]
        body == seed[2]
        enabled == seed[3]
        rule == [createAlertRule(key, body) EXCEPT !.enabled = enabled]
    IN  /\ Quiet
        /\ key \notin Keys(alertsTable)
        /\ alertsTable' = PutItem(alertsTable, rule)
        /\ ruleStore' = ruleStore \cup {rule}
        /\ AlertStep
        /\ UNCHANGED <<now, uuidCount, ruleCount, starts, pc, event, alertRules,
                       idx, alertInstance, notifications, sent, persisted, obs>>

\* POST /alerts: createAlertRule, validateAlertRule, then a PutCommand with
\* attribute_not_exists(alertId); a rejected rule leaves the table as it was.
createAlertRuleHandler(body) ==
    LET rule == createAlertRule(RuleUuid(ruleCount + 1), body)
        item == Merge(rule, [pk |-> rule.alertId, sk |-> <<"R", "U", "L", "E">>])
        accepted == validateAlertRule(rule) /\ rule.alertId \notin Keys(alertsTable)
    IN  /\ Quiet
        /\ ruleCount < MaxRules
        /\ ruleCount' = ruleCount + 1
        /\ alertsTable' = IF accepted THEN PutItem(alertsTable, item) ELSE alertsTable
        /\ ruleStore' = IF accepted THEN ruleStore \cup {item} ELSE ruleStore
        /\ AlertStep
        /\ UNCHANGED <<now, uuidCount, starts, pc, event, alertRules, idx,
                       alertInstance, notifications, sent, persisted, obs>>

\* handler, up to the for loop: the filter on the kind of event, then
\* getAlertRules; the scan may fail, which the handler rethrows.  The event
\* bus invokes the Lambda for each event on its own, so that an invocation
\* may begin while another one is under way.
Invoke(p, e) ==
    /\ Quiet
    /\ pc[p] = "idle"
    /\ \A q \in Passes : q < p => pc[q] # "idle"
    /\ starts < MaxStarts
    /\ starts' = starts + 1
    /\ event' = [event EXCEPT ![p] = e]
    /\ idx' = [idx EXCEPT ![p] = 1]
    /\ alertInstance' = [alertInstance EXCEPT ![p] = {}]
    /\ \/ /\ ~IsTelemetry(e)
          /\ pc' = [pc EXCEPT ![p] = "returned"]
          /\ alertRules' = [alertRules EXCEPT ![p] = <<>>]
          /\ obs' = [obs EXCEPT ![p] = NoObs]
       \/ /\ IsTelemetry(e)
          /\ pc' = [pc EXCEPT ![p] = "threw"]
          /\ alertRules' = [alertRules EXCEPT ![p] = <<>>]
          /\ obs' = [obs EXCEPT ![p] = NoObs]
       \/ /\ IsTelemetry(e)
          /\ LET deviceId == DeviceIdOf(e)
                 loaded == getAlertRules(alertsTable, deviceId)
                 managed == {m \in ruleStore : IsEnabled(m) /\ InScope(m, deviceId)}
                 missed == {m \in managed \ loaded :
                               evaluateAlertConditions(m.conditions, e.data)}
                 busy == \E q \in Passes \ {p} : Active(q)
             IN  /\ \E order \in Orders(loaded) :
                        alertRules' = [alertRules EXCEPT ![p] = order]
                 /\ pc' = [pc EXCEPT ![p] = "loop"]
                 /\ obs' = [q \in Passes |->
                              IF q = p
                              THEN [applicable |-> managed \cap alertsTable,
                                    evaluated |-> {},
                                    decided |-> {Decision(m, deviceId, now, FALSE, FALSE) :
                                                    m \in missed},
                                    overlapped |-> busy,
                                    storeFailed |-> FALSE]
                              ELSE IF Active(q)
                                   THEN [obs[q] EXCEPT !.overlapped = TRUE]
                                   ELSE obs[q]]
    /\ AlertStep
    /\ UNCHANGED <<alertsTable, now, uuidCount, ruleCount, notifications, sent,
                   ruleStore, persisted>>

\* One turn of the for loop, up to the decision to create an instance: the
\* enabled and scope checks, evaluateAlertConditions, getLastAlertForRule and
\* the cooldown arithmetic, createAlertInstance.  After the last rule the
\* handler returns.
Loop(p) ==
    /\ Quiet
    /\ pc[p] = "loop"
    /\ IF idx[p] > Len(alertRules[p])
       THEN /\ pc' = [pc EXCEPT ![p] = "returned"]
            /\ UNCHANGED <<idx, alertInstance, uuidCount, obs>>
       ELSE LET rule == alertRules[p][idx[p]]
                deviceId == DeviceIdOf(event[p])
            IN  IF ~IsEnabled(rule) \/ ~InScope(rule, deviceId)
                THEN /\ idx' = [idx EXCEPT ![p] = @ + 1]
                     /\ UNCHANGED <<pc, alertInstance, uuidCount, obs>>
                ELSE IF ~evaluateAlertConditions(rule.conditions, event[p].data)
                THEN /\ idx' = [idx EXCEPT ![p] = @ + 1]
                     /\ obs' = [obs EXCEPT ![p].evaluated = @ \cup {rule.alertId}]
                     /\ UNCHANGED <<pc, alertInstance, uuidCount>>
                ELSE \/ \* the query of getLastAlertForRule fails
                        /\ pc' = [pc EXCEPT ![p] = "threw"]
                        /\ obs' = [obs EXCEPT ![p].evaluated = @ \cup {rule.alertId}]
                        /\ UNCHANGED <<idx, alertInstance, uuidCount>>
                     \/ \E lastAlert \in
                            getLastAlertForRule(alertsTable, rule.alertId, deviceId) :
                          IF InCooldown(rule, lastAlert, now)
                          THEN /\ idx' = [idx EXCEPT ![p] = @ + 1]
                               /\ obs' = [obs EXCEPT
                                     ![p].evaluated = @ \cup {rule.alertId},
                                     ![p].decided = @ \cup
                                        {Decision(rule, deviceId, now, TRUE, FALSE)}]
                               /\ UNCHANGED <<pc, alertInstance, uuidCount>>
                          ELSE /\ uuidCount < MaxUuid
                               /\ uuidCount' = uuidCount + 1
                               /\ alertInstance' = [alertInstance EXCEPT ![p] =
                                     {createAlertInstance(Uuid(uuidCount + 1),
                                          rule.alertId, rule.severity, deviceId,
                                          event[p].id, now)}]
                               /\ pc' = [pc EXCEPT ![p] = "store"]
                               /\ obs' = [obs EXCEPT
                                     ![p].evaluated = @ \cup {rule.alertId},
                                     ![p].decided = @ \cup
                                        {Decision(rule, deviceId, now, TRUE, TRUE)}]
                               /\ UNCHANGED idx
    /\ AlertStep
    /\ UNCHANGED <<alertsTable, now, ruleCount, starts, event, alertRules,
                   notifications, sent, ruleStore, persisted>>

\* A handler that does not wait for the put: whether or not the item was
\* written, it goes on to request the notification.  The properties of the
\* order of persistence and notification are compared against it.
StoreUnawaited(p) ==
    /\ Quiet
    /\ pc[p] = "store"
    /\ LET instance == CHOOSE x \in alertInstance[p] : TRUE
       IN  \/ /\ alertsTable' = PutItem(alertsTable, StoredItem(instance))
              /\ persisted' = persisted \cup (alertsTable' \ alertsTable)
           \/ UNCHANGED <<alertsTable, persisted>>
    /\ pc' = [pc EXCEPT ![p] = "notify"]
    /\ AlertStep
    /\ UNCHANGED <<now, uuidCount, ruleCount, starts, event, alertRules, idx,
                   alertInstance, notifications, sent, ruleStore, obs>>

\* await storeAlertInstance(alertInstance): the put succeeds, or it fails and
\* the catch block of the handler rethrows.
Store(p) ==
    /\ Quiet
    /\ pc[p] = "store"
    /\ LET instance == CHOOSE x \in alertInstance[p] : TRUE
       IN  \/ /\ alertsTable' = PutItem(alertsTable, StoredItem(instance))
              /\ persisted' = persisted \cup (alertsTable' \ alertsTable)
              /\ pc' = [pc EXCEPT ![p] = "notify"]
              /\ UNCHANGED obs
           \/ /\ pc' = [pc EXCEPT ![p] = "threw"]
              /\ obs' = [obs EXCEPT
                    ![p].storeFailed = TRUE,
                    ![p].decided = {d \in @ : d.alertId # instance.alertId}]
              /\ UNCHANGED <<alertsTable, persisted>>
    /\ AlertStep
    /\ UNCHANGED <<now, uuidCount, ruleCount, starts, event, alertRules, idx,
                   alertInstance, notifications, sent, ruleStore>>

\* await triggerNotification(alertInstance, rule): PutEvents succeeds and the
\* loop goes on, or it fails and the handler rethrows.
Notify(p) ==
    /\ Quiet
    /\ pc[p] = "notify"
    /\ LET instance == CHOOSE x \in alertInstance[p] : TRUE
           rule == alertRules[p][idx[p]]
       IN  \/ /\ notifications' = notifications \cup {triggerNotification(instance, rule)}
              /\ idx' = [idx EXCEPT ![p] = @ + 1]
              /\ pc' = [pc EXCEPT ![p] = "loop"]
           \/ /\ pc' = [pc EXCEPT ![p] = "threw"]
              /\ UNCHANGED <<notifications, idx>>
    /\ AlertStep
    /\ UNCHANGED <<alertsTable, now, uuidCount, ruleCount, starts, event,
                   alertRules, alertInstance, sent, ruleStore, persisted, obs>>

\* The invocation is over: the Lambda instance is free for the next event.
\* Nothing else is scheduled between the handler's end and this step, so the
\* outcome of every pass is a state of its own.
End(p) ==
    /\ Finished(p)
    /\ pc' = [pc EXCEPT ![p] = "idle"]
    /\ event' = [event EXCEPT ![p] = NoReading]
    /\ alertRules' = [alertRules EXCEPT ![p] = <<>>]
    /\ idx' = [idx EXCEPT ![p] = 1]
    /\ alertInstance' = [alertInstance EXCEPT ![p] = {}]
    /\ obs' = [obs EXCEPT ![p] = NoObs]
    /\ AlertStep
    /\ UNCHANGED <<alertsTable, now, uuidCount, ruleCount, starts, notifications,
                   sent, ruleStore, persisted>>

\* The channels whose sender the notification handler invokes.
Attempted(rule) ==
    LET listed(c) == \E i \in 1..Len(rule.notificationChannels) :
                        rule.notificationChannels[i] = c
    IN  {c \in {"ui"} : listed(c)}
        \cup {c \in {"email"} : listed(c) /\ Has(rule, "emailRecipients")}
        \cup {c \in {"webhook"} : listed(c) /\ Has(rule, "webhookUrl")
                                            /\ rule.webhookUrl # ""}

\* functions/notification-handler.ts: the senders run and all settle; an email
\* or a webhook send may fail.  The outcome of the last run is kept.
NotificationHandler(n) ==
    /\ Quiet
    /\ n \in notifications
    /\ notifications' = notifications \ {n}
    /\ \E failed \in SUBSET (Attempted(n.Detail.rule) \cap {"email", "webhook"}) :
          sent' = {[alertInstanceId |-> n.Detail.alertInstance.alertInstanceId,
                    attempted |-> Attempted(n.Detail.rule), failed |-> failed]}
    /\ AlertStep
    /\ UNCHANGED <<alertsTable, now, uuidCount, ruleCount, starts, pc, event,
                   alertRules, idx, alertInstance, ruleStore, persisted, obs>>

\* infrastructure/app.ts, NotificationRule: an alert.notification event from
\* source iot_sensors is handed to the notification handler.
NotificationRule ==
    \E n \in notifications : MatchesNotificationRule(n) /\ NotificationHandler(n)

-----------------------------------------------------------------------------
(* functions/notification-handler.ts, sender by sender                     *)

NotifyChannels == {"ui", "email", "webhook"}

\* event.detail.rule of the notification events: the channel list, the
\* recipients (absent, an empty list, one address) and the webhook URL
\* (absent, the empty string, a URL).
NotifyRules ==
    {Merge([notificationChannels |-> channels],
           Merge(Attr("emailRecipients", recipients), Attr("webhookUrl", url))) :
        channels \in {<<"ui">>, <<"email">>, <<"webhook">>, <<"ui", "email">>,
                      <<"email", "webhook">>, <<"ui", "email", "webhook">>},
        recipients \in {{}, {<<>>}, {<<"ops">>}},
        url \in {{}, {""}, {"hook"}}}

NotifyInit ==
    /\ nRule = {}
    /\ nPc = "idle"
    /\ nSenders = [c \in NotifyChannels |-> "none"]
    /\ nSends = [c \in {"email", "webhook"} |-> "none"]

\* Promise.all: rejected as soon as one promise is, fulfilled when all are.
PromiseAll(promises) ==
    IF \E c \in DOMAIN promises : promises[c] = "rejected" THEN "rejected"
    ELSE IF \E c \in DOMAIN promises : promises[c] = "pending" THEN "pending"
    ELSE "fulfilled"

\* Promise.allSettled: fulfilled once every promise is fulfilled or rejected.
allSettled(promises) ==
    IF \E c \in DOMAIN promises : promises[c] = "pending" THEN "pending"
    ELSE "fulfilled"

\* handler, up to the await: each sender whose condition holds is called and
\* runs to its first await.  sendUINotification has none and is fulfilled;
\* sendEmailNotification has called sesClient.send, sendWebhookNotification
\* has called axios.post.
NotifyReceive(rule) ==
    /\ nPc = "idle"
    /\ nRule' = {rule}
    /\ nSenders' = [c \in NotifyChannels |->
                       IF c \notin Attempted(rule) THEN "none"
                       ELSE IF c = "ui" THEN "fulfilled" ELSE "pending"]
    /\ nSends' = [c \in {"email", "webhook"} |->
                     IF c \in Attempted(rule) THEN "pending" ELSE "none"]
    /\ nPc' = "await"
    /\ NotifyStep

\* sendEmailNotification after sesClient.send: a failure is logged and thrown
\* again, which rejects the sender's promise.
SettleEmail(ok) ==
    /\ nSends["email"] = "pending"
    /\ nSends' = [nSends EXCEPT !["email"] = IF ok THEN "ok" ELSE "failed"]
    /\ nSenders' = [nSenders EXCEPT !["email"] = IF ok THEN "fulfilled" ELSE "rejected"]
    /\ UNCHANGED <<nRule, nPc>>
    /\ NotifyStep

\* sendWebhookNotification after axios.post: a failure (an error status, no
\* answer within 5000 ms) is logged and not thrown.
SettleWebhook(ok) ==
    /\ nSends["webhook"] = "pending"
    /\ nSends' = [nSends EXCEPT !["webhook"] = IF ok THEN "ok" ELSE "failed"]
    /\ nSenders' = [nSenders EXCEPT !["webhook"] = "fulfilled"]
    /\ UNCHANGED <<nRule, nPc>>
    /\ NotifyStep

\* await Promise.allSettled(promises), then the handler returns.
NotifyJoin ==
    /\ nPc = "await"
    /\ allSettled(nSenders) # "pending"
    /\ nPc' = IF allSettled(nSenders) = "fulfilled" THEN "resolved" ELSE "rejected"
    /\ UNCHANGED <<nRule, nSenders, nSends>>
    /\ NotifyStep

\* The invocation is over; senders still pending are dropped with it.
NotifyEnd ==
    /\ nPc \in {"resolved", "rejected"}
    /\ nRule' = {}
    /\ nPc' = "idle"
    /\ nSenders' = [c \in NotifyChannels |-> "none"]
    /\ nSends' = [c \in {"email", "webhook"} |-> "none"]
    /\ NotifyStep

\* functions/websocket-handler.ts: const connections = new Map(); no
\* message handled, no replay started, no broadcast under way.
WsInit ==
    /\ connections = <<>>
    /\ connCount = 0
    /\ wsMessage = {}
    /\ wsResponse = {}
    /\ replays = <<>>
    /\ broadcast = <<>>

\* No instance stored and no loop turn made.
CheckInit ==
    /\ ckTable = {}
    /\ ckNow = 1000
    /\ ckCount = 0
    /\ ckTurn = {}
    /\ ckLast = {}
    /\ ckCreated = FALSE

\* stores/alertStore.ts: the initial state of the store.
StoreInit ==
    /\ activeAlerts = <<>>
    /\ isLoading = FALSE
    /\ storeError = {}
    /\ storeCalls = {}
    /\ storeResolved = {}

\* functions/event-processor.ts: an empty events table, nothing delivered.
IdemInit ==
    /\ epTable = {}
    /\ epClock = 1
    /\ epFirst = {}
    /\ epResponses = <<>>

\* No handler was called.
TaskInit == opLog = <<>>

\* adapters/interfaces.ts: a constructed adapter, its config with an interval.
AdapterInit ==
    /\ adStatus = "stopped"
    /\ adInterval = 1
    /\ intervalId = {}
    /\ adTimers = {}
    /\ adCalls = <<>>
    /\ lastRun = {}

\* stores/websocketStore.ts: the initial state of the store.
FrontInit ==
    /\ wsSockets = <<>>
    /\ socket = {}
    /\ isConnected = FALSE
    /\ isConnecting = FALSE
    /\ reconnects = 0
    /\ lastCall = "none"

EvalOff ==
    /\ evConditions = <<>>
    /\ evData = <<>>
    /\ evResult = FALSE
    /\ evPc = "off"

IngestInit ==
    /\ eventsTable = {}
    /\ eventBucket = {}
    /\ delivered = [t \in Targets |-> {}]
    /\ responses = {}

Init == AlertInit /\ EvalOff /\ IngestInit /\ NotifyInit /\ WsInit
       /\ CheckInit /\ StoreInit /\ IdemInit /\ TaskInit /\ AdapterInit
       /\ FrontInit

\* Readings processed one after another: an invocation begins when no other
\* one is under way.
Start(p, e) ==
    /\ \A q \in Passes : ~Active(q)
    /\ Invoke(p, e)

Next ==
    \/ Tick
    \/ \E seed \in SeedInputs : SeedRule(seed)
    \/ \E body \in RuleBodies : createAlertRuleHandler(body)
    \/ \E p \in Passes, e \in Readings : Start(p, e)
    \/ \E p \in Passes : Loop(p)
    \/ \E p \in Passes : Store(p)
    \/ \E p \in Passes : Notify(p)
    \/ \E p \in Passes : End(p)
    \/ NotificationRule

Spec == Init /\ [][Next]_vars

\* The event bus invokes the Lambda while another invocation may be under way.
Overlap(p, e) ==
    /\ starts < MaxOverlap
    /\ Invoke(p, e)

\* Readings processed concurrently, at one instant and over seeded rules.
NextConcurrent ==
    \/ \E seed \in SeedInputs : SeedRule(seed)
    \/ \E p \in Passes, e \in Readings : Overlap(p, e)
    \/ \E p \in Passes : Loop(p)
    \/ \E p \in Passes : Store(p)
    \/ \E p \in Passes : Notify(p)
    \/ \E p \in Passes : End(p)
    \/ NotificationRule

SpecConcurrent == Init /\ [][NextConcurrent]_vars

-----------------------------------------------------------------------------
(* The condition evaluator on its own: a payload is drawn, a condition     *)
(* list is built, evaluateAlertConditions is called.                       *)

EvalFields == {"value", "status"}

EvalOperators ==
    {"gt", "gte", "lt", "lte", "eq", "neq", "contains", "not_contains"}

EvalValues == {Num(40), Str(<<"4">>), Bool(TRUE)}

EvalConditions ==
    [field : EvalFields, operator : EvalOperators, value : EvalValues]

\* Payloads: "value" absent, null, a number or a string; "status" absent or true.
EvalPayloads ==
    LET values == {{}, {JsNull}, {Num(40)}, {Num(45)},
                   {Str(<<"4", "5">>)}, {Str(<<"o", "k">>)}}
        statuses == {{}, {Bool(TRUE)}}
    IN  {Merge(Attr("value", v), Attr("status", st)) : v \in values, st \in statuses}

EvalInit ==
    /\ evConditions = <<>>
    /\ evData \in EvalPayloads
    /\ evResult = FALSE
    /\ evPc = "input"

AddCondition(c) ==
    /\ evPc = "input"
    /\ Len(evConditions) < MaxConds
    /\ evConditions' = Append(evConditions, c)
    /\ UNCHANGED <<evData, evResult, evPc>>
    /\ EvalStep

\* const shouldTrigger = evaluateAlertConditions(rule.conditions, data)
Evaluate ==
    /\ evPc = "input"
    /\ evResult' = evaluateAlertConditions(evConditions, evData)
    /\ evPc' = "done"
    /\ UNCHANGED <<evConditions, evData>>
    /\ EvalStep

NextEval ==
    \/ \E c \in EvalConditions : AddCondition(c)
    \/ Evaluate

InitEval == EvalInit /\ AlertInit /\ IngestInit /\ NotifyInit /\ WsInit
       /\ CheckInit /\ StoreInit /\ IdemInit /\ TaskInit /\ AdapterInit
       /\ FrontInit

SpecEval == InitEval /\ [][NextEval]_vars

-----------------------------------------------------------------------------
(* Ingestion: the publisher of events, the event processor Lambda           *)
(* (functions/event-processor-simple.ts) and the routing of its output.    *)

IngestEvent(id, type, source, timestamp) ==
    Merge(Reading(id, type, source, D1, 45), [timestamp |-> timestamp])

\* Events the adapters publish: a reading, the same id at a later timestamp,
\* an event of another source, and an event without a type.
IngestEvents ==
    { IngestEvent("e1", "sensor_reading", "iot_sensors", 1),
      IngestEvent("e1", "sensor_reading", "iot_sensors", 2),
      IngestEvent("e2", "note", "manual", 1),
      IngestEvent("e3", "", "iot_sensors", 1) }

\* PutEvents: the bus hands the entry to the target of every matching rule.
PutEvents(entry) ==
    delivered' =
        [t \in Targets |->
            IF \/ t = "eventProcessor" /\ MatchesEventProcessingRule(entry)
               \/ t = "alertProcessor" /\ MatchesAlertProcessingRule(entry)
            THEN delivered[t] \cup {entry}
            ELSE delivered[t]]

\* handleEvent: the event goes to the bus; a failed send is logged and dropped.
handleEvent(ev) ==
    /\ \/ PutEvents([Source |-> ev.source, DetailType |-> "event", Detail |-> ev])
       \/ UNCHANGED delivered
    /\ UNCHANGED <<eventsTable, eventBucket, responses>>
    /\ IngestStep

\* !eventData || !eventData.id || !eventData.source || !eventData.type
InvalidStructure(detail) == detail.id = "" \/ detail.source = "" \/ detail.type = ""

\* storeEventInDynamoDB: a PutCommand on the table keyed by (id, timestamp).
storeEventInDynamoDB(table, detail) ==
    {x \in table : ~(x.id = detail.id /\ x.timestamp = detail.timestamp)}
        \cup {detail}

\* storeEventInS3: the object key events/<source>/<type>/<id>.json
ObjectKey(detail) == <<detail.source, detail.type, detail.id>>

emitProcessedEvent(detail) ==
    [Source |-> "event-processor", DetailType |-> "event.processed",
     Detail |-> [originalEvent |-> detail]]

\* emitErrorEvent: an entry no rule of the bus matches.
emitErrorEvent(detail) ==
    [Source |-> "event-processor", DetailType |-> "event.error",
     Detail |-> [originalEvent |-> detail]]

\* handler of the event processor, with the call that fails if one does:
\* "none", "dynamo", "s3" or "emit".  A failure is answered success: false
\* after emitErrorEvent.
eventProcessor(entry, failAt) ==
    LET detail == entry.Detail
        invalid == InvalidStructure(detail)
        stored == ~invalid /\ failAt # "dynamo"
        archived == stored /\ failAt # "s3"
        emitted == archived /\ failAt # "emit"
    IN  /\ entry \in delivered["eventProcessor"]
        /\ eventsTable' = IF stored THEN storeEventInDynamoDB(eventsTable, detail)
                          ELSE eventsTable
        /\ eventBucket' = IF archived THEN eventBucket \cup {ObjectKey(detail)}
                          ELSE eventBucket
        /\ IF emitted THEN PutEvents(emitProcessedEvent(detail))
           ELSE PutEvents(emitErrorEvent(detail))
        /\ responses' = responses \cup
              {[eventId |-> IF detail.id = "" THEN "unknown" ELSE detail.id,
                success |-> emitted]}
        /\ IngestStep

NextIngest ==
    \/ \E ev \in IngestEvents : handleEvent(ev)
    \/ \E entry \in [Source : {"iot_sensors", "manual"}, DetailType : {"event"},
                     Detail : IngestEvents],
          failAt \in {"none", "dynamo", "s3", "emit"} :
             eventProcessor(entry, failAt)

SpecIngest == Init /\ [][NextIngest]_vars

-----------------------------------------------------------------------------
(* The notification handler on its own                                     *)

NextNotify ==
    \/ \E rule \in NotifyRules : NotifyReceive(rule)
    \/ \E ok \in BOOLEAN : SettleEmail(ok)
    \/ \E ok \in BOOLEAN : SettleWebhook(ok)
    \/ NotifyJoin
    \/ NotifyEnd

SpecNotify == Init /\ [][NextNotify]_vars


-----------------------------------------------------------------------------
(* functions/websocket-handler.ts: the registry and the client messages    *)

MaxConns == 2       \* connection ids handed out
MaxReplays == 2     \* calls of startReplay

Arr(s) == [t |-> "array", v |-> s]

\* Array.isArray(x)
IsArray(x) == x.t = "array"

\* const { name } = data || {}: the property as an option.
Field(data, name) ==
    IF data = {} THEN {}
    ELSE LET d == CHOOSE x \in data : TRUE
         IN  IF Has(d, name) THEN {d[name]} ELSE {}

\* [...new Set(array)]: the first occurrence of each element, in order.
RECURSIVE Dedupe(_)
Dedupe(s) ==
    IF s = <<>> THEN <<>>
    ELSE LET init == Dedupe(SubSeq(s, 1, Len(s) - 1))
             last == s[Len(s)]
         IN  IF \E i \in 1..Len(init) : init[i] = last THEN init
             ELSE Append(init, last)

\* array.filter(x => !removed.includes(x))
RECURSIVE Without(_, _)
Without(s, removed) ==
    IF s = <<>> THEN <<>>
    ELSE LET rest == Without(Tail(s), removed)
         IN  IF \E i \in 1..Len(removed) : removed[i] = Head(s) THEN rest
             ELSE <<Head(s)>> \o rest

\* if (x && Array.isArray(x)) list.push(...x)
PushIfArray(list, opt) ==
    IF opt # {} /\ IsArray(CHOOSE x \in opt : TRUE)
    THEN list \o (CHOOSE x \in opt : TRUE).v
    ELSE list

\* ...(x || []): the elements of an array, none for an absent property; a
\* number is truthy and not iterable, and the spread throws a TypeError.
Spreadable(opt) == opt = {} \/ IsArray(CHOOSE x \in opt : TRUE)

Spread(opt) == IF opt = {} THEN <<>> ELSE (CHOOSE x \in opt : TRUE).v

\* The ConnectionInfo handleConnect stores.
NewConnection ==
    [subscriptions |-> <<>>, deviceSubscriptions |-> <<>>,
     alertSubscriptions |-> FALSE, replayConfig |-> {}]

\* A sender that drops every connection when a post fails, to compare the
\* properties of delivery failures against.
ClearConnections(conns, c) == <<>>

\* connections.delete(connectionId)
DeleteConnection(conns, c) == [x \in (DOMAIN conns) \ {c} |-> conns[x]]

\* A subscribe that appends without removing duplicates, to compare the
\* properties of the subscription lists against.
handleSubscribeKeepingDuplicates(connection, data) ==
    [connection EXCEPT !.subscriptions =
        PushIfArray(PushIfArray(@, Field(data, "sources")), Field(data, "types"))]

handleSubscribe(connection, data) ==
    [connection EXCEPT !.subscriptions =
        Dedupe(PushIfArray(PushIfArray(@, Field(data, "sources")),
                           Field(data, "types")))]

handleUnsubscribe(connection, data) ==
    [connection EXCEPT !.subscriptions =
        Without(@, Spread(Field(data, "sources")) \o Spread(Field(data, "types")))]

handleSubscribeDevices(connection, data) ==
    LET deviceIds == Field(data, "deviceIds")
    IN  IF deviceIds # {} /\ IsArray(CHOOSE x \in deviceIds : TRUE)
        THEN [connection EXCEPT !.deviceSubscriptions =
                 Dedupe(@ \o (CHOOSE x \in deviceIds : TRUE).v)]
        ELSE connection

handleUnsubscribeDevices(connection, data) ==
    LET deviceIds == Field(data, "deviceIds")
    IN  IF deviceIds # {} /\ IsArray(CHOOSE x \in deviceIds : TRUE)
        THEN [connection EXCEPT !.deviceSubscriptions =
                 Without(@, (CHOOSE x \in deviceIds : TRUE).v)]
        ELSE [connection EXCEPT !.deviceSubscriptions = <<>>]

\* A default branch that writes nothing into the response, to compare the
\* properties of unknown actions against.
UnknownActionIgnored(conns) ==
    [threw |-> FALSE, conns |-> conns, error |-> {}, data |-> {}]

\* default: response.error = `Unknown action: ${message.action}`
UnknownAction(conns) ==
    [threw |-> FALSE, conns |-> conns, error |-> {"Unknown action"}, data |-> {}]

\* The switch of handleMessage: what the handler of the action does to the
\* registry and writes into the response, or that it throws.  Every handler
\* that needs the connection answers 'Connection not found' without it.
Dispatch(conns, c, msg, queryOk) ==
    LET known == c \in DOMAIN conns
        done(connection, data) ==
            [threw |-> FALSE, conns |-> [conns EXCEPT ![c] = connection],
             error |-> {}, data |-> {data}]
        failed(error) ==
            [threw |-> FALSE, conns |-> conns, error |-> {error}, data |-> {}]
        notFound == failed("Connection not found")
    IN  CASE msg.action = "subscribe" ->
               IF ~known THEN notFound
               ELSE LET n == handleSubscribe(conns[c], msg.data)
                    IN  done(n, n.subscriptions)
          [] msg.action = "unsubscribe" ->
               IF ~known THEN notFound
               ELSE IF ~Spreadable(Field(msg.data, "sources"))
                       \/ ~Spreadable(Field(msg.data, "types"))
               THEN [threw |-> TRUE, conns |-> conns, error |-> {}, data |-> {}]
               ELSE LET n == handleUnsubscribe(conns[c], msg.data)
                    IN  done(n, n.subscriptions)
          [] msg.action = "subscribe_devices" ->
               IF ~known THEN notFound
               ELSE LET n == handleSubscribeDevices(conns[c], msg.data)
                    IN  done(n, n.deviceSubscriptions)
          [] msg.action = "unsubscribe_devices" ->
               IF ~known THEN notFound
               ELSE LET n == handleUnsubscribeDevices(conns[c], msg.data)
                    IN  done(n, n.deviceSubscriptions)
          [] msg.action = "subscribe_alerts" ->
               IF ~known THEN notFound
               ELSE done([conns[c] EXCEPT !.alertSubscriptions = TRUE], TRUE)
          [] msg.action = "unsubscribe_alerts" ->
               IF ~known THEN notFound
               ELSE done([conns[c] EXCEPT !.alertSubscriptions = FALSE], FALSE)
          [] msg.action = "query_events" ->
               IF queryOk
               THEN [threw |-> FALSE, conns |-> conns, error |-> {}, data |-> {"events"}]
               ELSE failed("Failed to query events")
          [] msg.action = "start_replay" ->
               IF ~known THEN notFound
               ELSE done([conns[c] EXCEPT !.replayConfig = msg.data], "Replay started")
          [] msg.action = "stop_replay" ->
               IF ~known THEN notFound
               ELSE done([conns[c] EXCEPT !.replayConfig = {}], "Replay stopped")
          [] msg.action = "ping" ->
               [threw |-> FALSE, conns |-> conns, error |-> {}, data |-> {"pong"}]
          [] OTHER -> UnknownAction(conns)

\* The response handleMessage posts: the one it built from the message, or,
\* from its catch block, a new one with action 'error'.
ResponseTo(msg, out) ==
    IF out.threw
    THEN [action |-> "error", requestId |-> {}, error |-> {"TypeError"}, data |-> {}]
    ELSE [action |-> msg.action, requestId |-> msg.requestId,
          error |-> out.error, data |-> out.data]

\* The historical events of the events table: [id, timestamp].
HistoricalEvents ==
    { [id |-> "h1", timestamp |-> 3400], [id |-> "h2", timestamp |-> 1200],
      [id |-> "h3", timestamp |-> 3400], [id |-> "h4", timestamp |-> 6000] }

\* message.data of start_replay: a ReplayConfig, or nothing.
ReplayConfigs ==
    { {}, {[startTime |-> 1000, endTime |-> 5000, speed |-> 5]} }

\* queryEventsFromDynamoDB without sources and types: the scan with
\* timestamp >= startTime and timestamp <= endTime, in the order the table
\* returns the items.
queryEventsFromDynamoDB(filters) ==
    Orders({h \in HistoricalEvents :
               /\ filters.startTime # 0 => h.timestamp >= filters.startTime
               /\ filters.endTime # 0 => h.timestamp <= filters.endTime})

\* A replay that keeps the order of retrieval, to compare the ordering
\* property against.
Unsorted(events) == events

\* events.sort((a, b) => a.timestamp - b.timestamp): a stable sort, here by
\* insertion from the left.
RECURSIVE SortByTimestamp(_)
SortByTimestamp(events) ==
    IF events = <<>> THEN <<>>
    ELSE LET init == SortByTimestamp(SubSeq(events, 1, Len(events) - 1))
             last == events[Len(events)]
             k == Cardinality({i \in 1..Len(init) : init[i].timestamp <= last.timestamp})
         IN  SubSeq(init, 1, k) \o <<last>> \o SubSeq(init, k + 1, Len(init))

\* The call startReplay(connectionId, config): with no config the
\* destructuring throws and the rejection is logged by the caller's catch.
\* cancelled and superseded are history: a stop or removal of the session
\* between two deliveries, or a later start_replay, was handled while the
\* replay was running.
NewReplay(c, config) ==
    [connectionId |-> c, config |-> config,
     pc |-> IF config = {} THEN "failed" ELSE "query",
     events |-> <<>>, next |-> 1, delivered |-> <<>>,
     cancelled |-> FALSE, superseded |-> FALSE]

Running(replay) == replay.pc \in {"query", "loop"}

\* The history marks of the running replays of a connection.
Mark(all, c, stopped, started) ==
    [r \in DOMAIN all |->
        IF all[r].connectionId = c /\ Running(all[r])
        THEN [all[r] EXCEPT
                 !.cancelled = @ \/ (stopped /\ all[r].pc = "loop"
                                             /\ all[r].delivered # <<>>),
                 !.superseded = @ \/ started]
        ELSE all[r]]

\* $connect: API Gateway hands out a new connection id.
handleConnect ==
    /\ connCount < MaxConns
    /\ connCount' = connCount + 1
    /\ connections' = [x \in (DOMAIN connections) \cup {connCount + 1} |->
                          IF x = connCount + 1 THEN NewConnection ELSE connections[x]]
    /\ UNCHANGED <<wsMessage, wsResponse, replays, broadcast>>
    /\ WsStep

\* The clients of the runs about one session.
MaxClients == 1

Client == connCount < MaxClients /\ handleConnect

\* $disconnect
handleDisconnect(c) ==
    /\ c \in DOMAIN connections
    /\ connections' = DeleteConnection(connections, c)
    /\ replays' = Mark(replays, c, TRUE, FALSE)
    /\ UNCHANGED <<connCount, wsMessage, wsResponse, broadcast>>
    /\ WsStep

\* $default: handleMessage from JSON.parse to the end; the post of the
\* response succeeds, or fails and sendToConnection deletes the connection.
handleMessage(c, msg, queryOk, sendOk) ==
    LET known == c \in DOMAIN connections
        out == Dispatch(connections, c, msg, queryOk)
        after == IF sendOk THEN out.conns ELSE DeleteConnection(out.conns, c)
        started == msg.action = "start_replay" /\ known
        stopped == msg.action = "stop_replay" /\ known
        removed == known /\ ~sendOk
        marked == Mark(replays, c, stopped \/ removed, started)
    IN  /\ c \in 1..connCount
        /\ started => Len(replays) < MaxReplays
        /\ connections' = after
        /\ wsMessage' = {[connectionId |-> c, message |-> msg, known |-> known,
                          before |-> IF known THEN {connections[c]} ELSE {}]}
        /\ wsResponse' = {ResponseTo(msg, out)}
        /\ replays' = IF started
                      THEN Append(marked, NewReplay(c, msg.data))
                      ELSE marked
        /\ UNCHANGED <<connCount, broadcast>>
        /\ WsStep

\* startReplay after the query: the events sorted, or the query has failed
\* and the rejection is logged.
ReplayQuery(r, ok) ==
    /\ r \in DOMAIN replays
    /\ replays[r].pc = "query"
    /\ IF ok
       THEN \E order \in queryEventsFromDynamoDB(CHOOSE x \in replays[r].config : TRUE) :
               replays' = [replays EXCEPT ![r].events = SortByTimestamp(order),
                                          ![r].pc = "loop"]
       ELSE replays' = [replays EXCEPT ![r].pc = "failed"]
    /\ UNCHANGED <<connections, connCount, wsMessage, wsResponse, broadcast>>
    /\ WsStep

\* One turn of the for loop of startReplay: the check of the connection and
\* of its replayConfig, the post of the replay_event (a failed post deletes
\* the connection), the pause of 1000 / speed ms.
ReplayDeliver(r, sendOk) ==
    /\ r \in DOMAIN replays
    /\ replays[r].pc = "loop"
    /\ replays[r].next <= Len(replays[r].events)
    /\ LET c == replays[r].connectionId
       IN  IF c \notin DOMAIN connections \/ connections[c].replayConfig = {}
           THEN /\ replays' = [replays EXCEPT ![r].pc = "stopped"]
                /\ UNCHANGED connections
           ELSE /\ connections' = IF sendOk THEN connections
                                  ELSE DeleteConnection(connections, c)
                /\ replays' =
                      [Mark(replays, c, ~sendOk, FALSE) EXCEPT
                          ![r].delivered = Append(@, replays[r].events[replays[r].next]),
                          ![r].next = @ + 1]
    /\ UNCHANGED <<connCount, wsMessage, wsResponse, broadcast>>
    /\ WsStep

\* The for loop is past the last event and startReplay returns.
ReplayReturn(r) ==
    /\ r \in DOMAIN replays
    /\ replays[r].pc = "loop"
    /\ replays[r].next > Len(replays[r].events)
    /\ replays' = [replays EXCEPT ![r].pc = "done"]
    /\ UNCHANGED <<connections, connCount, wsMessage, wsResponse, broadcast>>
    /\ WsStep

\* broadcastEvent: a post to every key of the Map, all begun at once.
broadcastEvent ==
    /\ broadcast = <<>>
    /\ DOMAIN connections # {}
    /\ broadcast' = [c \in DOMAIN connections |-> "pending"]
    /\ UNCHANGED <<connections, connCount, wsMessage, wsResponse, replays>>
    /\ WsStep

\* sendToConnection of the broadcast settles: a failed post is caught and
\* the connection deleted.
SettleSend(c, ok) ==
    /\ c \in DOMAIN broadcast
    /\ broadcast[c] = "pending"
    /\ broadcast' = [broadcast EXCEPT ![c] = IF ok THEN "ok" ELSE "failed"]
    /\ connections' = IF ok THEN connections ELSE DeleteConnection(connections, c)
    /\ replays' = IF ok THEN replays ELSE Mark(replays, c, TRUE, FALSE)
    /\ UNCHANGED <<connCount, wsMessage, wsResponse>>
    /\ WsStep

\* await Promise.allSettled(broadcastPromises), then broadcastEvent returns.
BroadcastReturn ==
    /\ broadcast # <<>>
    /\ \A c \in DOMAIN broadcast : broadcast[c] # "pending"
    /\ broadcast' = <<>>
    /\ UNCHANGED <<connections, connCount, wsMessage, wsResponse, replays>>
    /\ WsStep

\* Client messages about subscriptions; the ones without data come with and
\* without a requestId.
TopicData ==
    { {}, {[sources |-> Arr(<<"iot_sensors">>)]},
      {[types |-> Arr(<<"sensor_reading">>)]},
      {[sources |-> Arr(<<"iot_sensors", "iot_sensors">>)]},
      {[sources |-> Arr(<<>>), types |-> Arr(<<>>)]},
      {[sources |-> Num(5)]} }

DeviceData ==
    { {}, {[deviceIds |-> Arr(<<"d1">>)]}, {[deviceIds |-> Arr(<<"d2", "d2">>)]},
      {[deviceIds |-> Arr(<<>>)]} }

AlertMessages ==
    [action : {"subscribe_alerts", "unsubscribe_alerts"}, data : {{}},
     requestId : {{}}]

RequestIds == {{}, {"r1"}}

SubscriptionMessages ==
    [action : {"subscribe", "unsubscribe"}, data : TopicData, requestId : {{"r1"}}]
    \cup [action : {"subscribe_devices", "unsubscribe_devices"}, data : DeviceData,
          requestId : {{"r1"}}]
    \cup [action : {"ping", "query_events", "restart"}, data : {{}},
          requestId : RequestIds]

ReplayMessages ==
    [action : {"start_replay"}, data : ReplayConfigs, requestId : {{}}]
    \cup [action : {"stop_replay"}, data : {{}}, requestId : {{}}]

NextWs ==
    \/ Client
    \/ \E c \in 1..MaxConns : handleDisconnect(c)
    \/ \E c \in 1..MaxConns, msg \in SubscriptionMessages, queryOk, sendOk \in BOOLEAN :
          handleMessage(c, msg, queryOk, sendOk)

SpecWs == Init /\ [][NextWs]_vars

NextReplay ==
    \/ Client
    \/ \E c \in 1..MaxConns : handleDisconnect(c)
    \/ \E c \in 1..MaxConns, msg \in ReplayMessages, sendOk \in BOOLEAN :
          handleMessage(c, msg, TRUE, sendOk)
    \/ \E r \in 1..MaxReplays, ok \in BOOLEAN : ReplayQuery(r, ok)
    \/ \E r \in 1..MaxReplays, sendOk \in BOOLEAN : ReplayDeliver(r, sendOk)
    \/ \E r \in 1..MaxReplays : ReplayReturn(r)

SpecReplay == Init /\ [][NextReplay]_vars

NextBroadcast ==
    \/ handleConnect
    \/ \E c \in 1..MaxConns : handleDisconnect(c)
    \/ \E c \in 1..MaxConns, msg \in AlertMessages, sendOk \in BOOLEAN :
          handleMessage(c, msg, TRUE, sendOk)
    \/ broadcastEvent
    \/ \E c \in 1..MaxConns, ok \in BOOLEAN : SettleSend(c, ok)
    \/ BroadcastReturn

SpecBroadcast == Init /\ [][NextBroadcast]_vars

-----------------------------------------------------------------------------
(* functions/alert-processor.ts: the cooldown check of one loop turn        *)

MaxFirings == 3
MaxHalfSeconds == 3

\* Rules the pass has loaded: scoped with a cooldown of one second, scoped
\* without cooldown, global with a cooldown of one second.
CheckRules ==
    { createAlertRule(RulePrefix \o <<"1">>, ScopedCooldown),
      createAlertRule(RulePrefix \o <<"2">>, ScopedZero),
      createAlertRule(RulePrefix \o <<"3">>,
                      Body({}, {}, {}, {}, {}, {1})) }

\* sensorEvent.data.deviceId of the reading; the empty string for a reading
\* without one.
CheckDevices == {D1, D2, <<>>}

\* Date.now() moves on between two loop turns.
Advance ==
    /\ ckNow < 1000 + MaxHalfSeconds * 500
    /\ ckNow' = ckNow + 500
    /\ UNCHANGED <<ckTable, ckCount, ckTurn, ckLast, ckCreated>>
    /\ CheckStep

\* One turn of the for loop for an enabled rule whose conditions match the
\* reading: the scope check, getLastAlertForRule, the cooldown arithmetic
\* and, when the turn is not skipped, createAlertInstance and
\* storeAlertInstance.
Turn(rule, deviceId) ==
    /\ IsEnabled(rule)
    /\ InScope(rule, deviceId)
    /\ \E lastAlert \in getLastAlertForRule(ckTable, rule.alertId, deviceId) :
          LET skip == InCooldown(rule, lastAlert, ckNow)
              instance == createAlertInstance(Uuid(ckCount + 1), rule.alertId,
                              rule.severity, deviceId, "e1", ckNow)
          IN  /\ ~skip => ckCount < MaxFirings
              /\ ckTurn' = {[rule |-> rule, deviceId |-> deviceId, at |-> ckNow,
                           table |-> ckTable]}
              /\ ckLast' = lastAlert
              /\ ckCreated' = ~skip
              /\ ckCount' = IF skip THEN ckCount ELSE ckCount + 1
              /\ ckTable' = IF skip THEN ckTable
                            ELSE PutItem(ckTable, StoredItem(instance))
    /\ UNCHANGED ckNow
    /\ CheckStep

NextCheck ==
    \/ Advance
    \/ \E rule \in CheckRules, deviceId \in CheckDevices : Turn(rule, deviceId)

SpecCheck == Init /\ [][NextCheck]_vars

-----------------------------------------------------------------------------
(* frontend/src/stores/alertStore.ts: the active alerts of the dashboard    *)

MaxCalls == 2

\* What GET /alerts/active answers: the instances whose status is 'active',
\* newest first.
ActiveInstance(id) == [alertInstanceId |-> id, status |-> "active"]

ServerAlerts ==
    { <<>>, <<ActiveInstance("i1")>>,
      <<ActiveInstance("i2"), ActiveInstance("i1")>> }

AlertIds == {"i1", "i2"}

\* activeAlerts.map(a => a.alertInstanceId === id
\*                       ? { ...a, status: 'acknowledged' } : a)
MarkAcknowledged(alerts, id) ==
    [i \in 1..Len(alerts) |->
        IF alerts[i].alertInstanceId = id
        THEN [alerts[i] EXCEPT !.status = "acknowledged"]
        ELSE alerts[i]]

\* A resolve that keeps the instance in the list with status 'resolved', to
\* compare the order of the statuses against.
MarkResolved(alerts, id) ==
    [i \in 1..Len(alerts) |->
        IF alerts[i].alertInstanceId = id
        THEN [alerts[i] EXCEPT !.status = "resolved"]
        ELSE alerts[i]]

\* activeAlerts.filter(a => a.alertInstanceId !== id)
RECURSIVE RemoveAlert(_, _)
RemoveAlert(alerts, id) ==
    IF alerts = <<>> THEN <<>>
    ELSE IF Head(alerts).alertInstanceId = id THEN RemoveAlert(Tail(alerts), id)
    ELSE <<Head(alerts)>> \o RemoveAlert(Tail(alerts), id)

\* fetchActiveAlerts, acknowledgeAlert and resolveAlert up to their await
\* fetch(...): set({ isLoading: true, error: null }) and the request.
StoreCall(op, id) ==
    /\ Cardinality(storeCalls) < MaxCalls
    /\ [op |-> op, id |-> id] \notin storeCalls
    /\ storeCalls' = storeCalls \cup {[op |-> op, id |-> id]}
    /\ isLoading' = TRUE
    /\ storeError' = {}
    /\ UNCHANGED <<activeAlerts, storeResolved>>
    /\ StoreStep

\* What the catch blocks set.
StoreFailed(message) ==
    /\ storeError' = {message}
    /\ isLoading' = FALSE
    /\ UNCHANGED <<activeAlerts, storeResolved>>

\* fetchActiveAlerts after the response.
fetchActiveAlerts(ok, alerts) ==
    /\ [op |-> "fetch", id |-> ""] \in storeCalls
    /\ storeCalls' = storeCalls \ {[op |-> "fetch", id |-> ""]}
    /\ IF ok
       THEN /\ activeAlerts' = alerts
            /\ isLoading' = FALSE
            /\ UNCHANGED <<storeError, storeResolved>>
       ELSE StoreFailed("Failed to fetch active alerts")
    /\ StoreStep

\* acknowledgeAlert after the response.
acknowledgeAlert(id, ok) ==
    /\ [op |-> "acknowledge", id |-> id] \in storeCalls
    /\ storeCalls' = storeCalls \ {[op |-> "acknowledge", id |-> id]}
    /\ IF ok
       THEN /\ activeAlerts' = MarkAcknowledged(activeAlerts, id)
            /\ isLoading' = FALSE
            /\ UNCHANGED <<storeError, storeResolved>>
       ELSE StoreFailed("Failed to acknowledge alert")
    /\ StoreStep

\* resolveAlert after the response.
resolveAlert(id, ok) ==
    /\ [op |-> "resolve", id |-> id] \in storeCalls
    /\ storeCalls' = storeCalls \ {[op |-> "resolve", id |-> id]}
    /\ IF ok
       THEN /\ activeAlerts' = RemoveAlert(activeAlerts, id)
            /\ storeResolved' = storeResolved \cup
                  {id : i \in {j \in 1..Len(activeAlerts) :
                                  activeAlerts[j].alertInstanceId = id}}
            /\ isLoading' = FALSE
            /\ UNCHANGED storeError
       ELSE StoreFailed("Failed to resolve alert")
    /\ StoreStep

NextStore ==
    \/ StoreCall("fetch", "")
    \/ \E op \in {"acknowledge", "resolve"}, id \in AlertIds : StoreCall(op, id)
    \/ \E ok \in BOOLEAN, alerts \in ServerAlerts : fetchActiveAlerts(ok, alerts)
    \/ \E id \in AlertIds, ok \in BOOLEAN : acknowledgeAlert(id, ok)
    \/ \E id \in AlertIds, ok \in BOOLEAN : resolveAlert(id, ok)

SpecStore == Init /\ [][NextStore]_vars

-----------------------------------------------------------------------------
(* functions/event-processor.ts: storing a delivered event                  *)

MaxDeliveries == 3

\* event.detail of the deliveries: an event, the same event again, an event
\* of the same id with a later timestamp, and another event.
DeliveredEvents ==
    { [id |-> "e1", timestamp |-> 10], [id |-> "e1", timestamp |-> 20],
      [id |-> "e2", timestamp |-> 10] }

\* The item of the PutCommand.
EventItem(ev, at) ==
    [id |-> ev.id, timestamp |-> ev.timestamp, createdAt |-> at, updatedAt |-> at]

\* PutCommand with ConditionExpression attribute_not_exists(id): DynamoDB
\* evaluates the condition on the item of the same primary key, here
\* (id, timestamp); FALSE stands for ConditionalCheckFailedException.
ConditionalPut(table, item) ==
    IF \E x \in table : x.id = item.id /\ x.timestamp = item.timestamp
    THEN [put |-> FALSE, table |-> table]
    ELSE [put |-> TRUE, table |-> table \cup {item}]

\* storeEventInDynamoDB: a failed condition is logged and swallowed, every
\* other error of the send is thrown.
storeEventConditionally(table, ev, at, sendFails) ==
    IF sendFails THEN [thrown |-> TRUE, table |-> table]
    ELSE [thrown |-> FALSE, table |-> ConditionalPut(table, EventItem(ev, at)).table]

\* handler of the event processor for one delivery: storeEventInDynamoDB,
\* then the archive, the device update and the processed event; failAt
\* names the call that fails, if one does.
processEvent(ev, failAt) ==
    LET out == storeEventConditionally(epTable, ev, epClock, failAt = "dynamo")
        table == out.table
    IN  /\ Len(epResponses) < MaxDeliveries
        /\ epTable' = table
        /\ epFirst' = epFirst \cup
              {x \in table \ epTable : \A f \in epFirst : f.id # x.id}
        /\ epResponses' = Append(epResponses,
              [eventId |-> ev.id, eventTimestamp |-> ev.timestamp,
               success |-> ~out.thrown /\ failAt # "later",
               failAt |-> failAt,
               repeated |-> \E x \in epTable : x.id = ev.id])
        /\ epClock' = epClock + 1
        /\ IdemStep

NextIdem ==
    \E ev \in DeliveredEvents, failAt \in {"none", "dynamo", "later"} :
        processEvent(ev, failAt)

SpecIdem == Init /\ [][NextIdem]_vars

-----------------------------------------------------------------------------
(* functions/alert-handler.ts: PUT and DELETE /alerts/{alertId}            *)

MaxRuleWrites == 3  \* rule items written by rule management

\* Path parameters of the requests: the rule created and a key never used.
RuleKeys == {RuleUuid(1), RuleUuid(2)}

\* Request bodies of PUT /alerts/{alertId}, parsed.
UpdateBodies ==
    { [conditions |-> <<>>], [notificationChannels |-> <<>>],
      [cooldownPeriod |-> 0 - 1], [enabled |-> FALSE],
      [conditions |-> ValueAbove40, notificationChannels |-> <<"ui">>] }

\* ConditionExpression 'userId = :userId' of a request that carries a user;
\* a request without one has no condition.
OwnedBy(table, alertId, user) ==
    user = {} \/ \E x \in table : /\ x.alertId = alertId
                                  /\ Has(x, "userId")
                                  /\ x.userId \in user

\* UpdateCommand: SET of every key of the body on the item of the key; an
\* item that does not exist is created with the key and the attributes set.
UpdateItem(table, alertId, updateData) ==
    LET old == IF alertId \in Keys(table)
               THEN CHOOSE x \in table : x.alertId = alertId
               ELSE [alertId |-> alertId]
    IN  PutItem(table, Merge(updateData, old))

\* updateAlertRule: the body is written as it came, without validateAlertRule.
updateAlertRule(alertId, updateData, user) ==
    LET table == IF OwnedBy(alertsTable, alertId, user)
                 THEN UpdateItem(alertsTable, alertId, updateData)
                 ELSE alertsTable
    IN  /\ Quiet
        /\ Cardinality(ruleStore) < MaxRuleWrites
        /\ alertsTable' = table
        /\ ruleStore' = ruleStore \cup (table \ alertsTable)
        /\ AlertStep
        /\ UNCHANGED <<now, uuidCount, ruleCount, starts, pc, event, alertRules,
                       idx, alertInstance, notifications, sent, persisted, obs>>

\* deleteAlertRule: DeleteCommand on the key, under the same condition.
deleteAlertRule(alertId, user) ==
    /\ Quiet
    /\ alertId \in Keys(alertsTable)
    /\ alertsTable' = IF OwnedBy(alertsTable, alertId, user)
                      THEN {x \in alertsTable : x.alertId # alertId}
                      ELSE alertsTable
    /\ AlertStep
    /\ UNCHANGED <<now, uuidCount, ruleCount, starts, pc, event, alertRules, idx,
                   alertInstance, notifications, sent, ruleStore, persisted, obs>>

Users == {{}, {"u1"}}

NextRules ==
    \/ \E body \in RuleBodies : createAlertRuleHandler(body)
    \/ \E alertId \in RuleKeys, updateData \in UpdateBodies, user \in Users :
          updateAlertRule(alertId, updateData, user)
    \/ \E alertId \in RuleKeys, user \in Users : deleteAlertRule(alertId, user)

SpecRules == Init /\ [][NextRules]_vars

-----------------------------------------------------------------------------
(* functions/websocket-handler.ts: handlers running concurrently           *)
(* A handler runs from its call to its first pending await without         *)
(* interruption; the handlers of other invocations run while it waits.     *)

MaxOps == 4         \* handler calls of a run
MaxSessions == 2    \* connection ids of a run

\* The messages that change the registry.
RegistryMessages ==
    { [action |-> "subscribe", requestId |-> {},
       data |-> {[sources |-> Arr(<<"iot_sensors">>)]}],
      [action |-> "subscribe", requestId |-> {},
       data |-> {[types |-> Arr(<<"sensor_reading">>)]}],
      [action |-> "unsubscribe", requestId |-> {},
       data |-> {[sources |-> Arr(<<"iot_sensors">>)]}],
      [action |-> "start_replay", requestId |-> {},
       data |-> {[startTime |-> 1000, endTime |-> 5000, speed |-> 5]}],
      [action |-> "stop_replay", requestId |-> {}, data |-> {}] }

\* The handlers of this part write the registry and the log.
AtomicStep ==
    UNCHANGED <<evalVars, alertVars, ingestVars, notifyVars, checkVars, storeVars,
                idemVars, adapterVars, frontVars>>

Logged(kind, c, msg, overlap) ==
    [kind |-> kind, connectionId |-> c, message |-> msg, sendOk |-> {},
     overlap |-> overlap]

\* A call of handleMessage whose post of the response is pending.
Pending(e) == e.kind = "message" /\ e.sendOk = {}

\* handleConnect up to its await of emitConnectionEvent.
ConnectEnter ==
    LET c == Cardinality({i \in 1..Len(opLog) : opLog[i].kind = "connect"}) + 1
    IN  /\ Len(opLog) < MaxOps
        /\ c <= MaxSessions
        /\ connections' = [x \in (DOMAIN connections) \cup {c} |->
                              IF x = c THEN NewConnection ELSE connections[x]]
        /\ opLog' = Append(opLog, Logged("connect", c, {}, FALSE))
        /\ UNCHANGED <<connCount, wsMessage, wsResponse, replays, broadcast>>
        /\ AtomicStep

\* handleDisconnect up to its await of emitConnectionEvent.
DisconnectEnter(c) ==
    /\ Len(opLog) < MaxOps
    /\ c \in DOMAIN connections
    /\ connections' = DeleteConnection(connections, c)
    /\ opLog' = Append(opLog, Logged("disconnect", c, {}, FALSE))
    /\ UNCHANGED <<connCount, wsMessage, wsResponse, replays, broadcast>>
    /\ AtomicStep

\* handleMessage up to the await of the post at sendToConnection: the
\* handler of the action reads the session and writes it with no await in
\* between.
MessageEnter(c, msg) ==
    /\ Len(opLog) < MaxOps
    /\ \E i \in 1..Len(opLog) : opLog[i].kind = "connect" /\ opLog[i].connectionId = c
    /\ connections' = Dispatch(connections, c, msg, TRUE).conns
    /\ opLog' = Append(opLog,
          Logged("message", c, msg,
                 \E i \in 1..Len(opLog) :
                     Pending(opLog[i]) /\ opLog[i].connectionId = c))
    /\ UNCHANGED <<connCount, wsMessage, wsResponse, replays, broadcast>>
    /\ AtomicStep

\* A handler that, when its post has settled, sets the session of its key
\* again from its message alone, to compare the atomicity of the registry
\* against.
PostSettleWritingBack(i, ok) ==
    LET c == opLog[i].connectionId
        seen == Dispatch([x \in {c} |-> NewConnection], c, opLog[i].message, TRUE).conns
    IN  /\ i \in 1..Len(opLog)
        /\ Pending(opLog[i])
        /\ connections' = IF ok THEN [x \in (DOMAIN connections) \cup {c} |->
                                         IF x = c THEN seen[c] ELSE connections[x]]
                          ELSE DeleteConnection(connections, c)
        /\ opLog' = [opLog EXCEPT ![i].sendOk = {ok}]
        /\ UNCHANGED <<connCount, wsMessage, wsResponse, replays, broadcast>>
        /\ AtomicStep

\* handleMessage from the settling of the post on: sendToConnection deletes
\* the connection when the post failed, and nothing else is written.
PostSettle(i, ok) ==
    /\ i \in 1..Len(opLog)
    /\ Pending(opLog[i])
    /\ connections' = IF ok THEN connections
                      ELSE DeleteConnection(connections, opLog[i].connectionId)
    /\ opLog' = [opLog EXCEPT ![i].sendOk = {ok}]
    /\ UNCHANGED <<connCount, wsMessage, wsResponse, replays, broadcast>>
    /\ AtomicStep

\* The registry after the calls of a log handled one after the other, each
\* to its end, in the order of the log.
RECURSIVE Serial(_)
Serial(log) ==
    IF log = <<>> THEN <<>>
    ELSE LET before == Serial(SubSeq(log, 1, Len(log) - 1))
             e == log[Len(log)]
             c == e.connectionId
         IN  CASE e.kind = "connect" ->
                    [x \in (DOMAIN before) \cup {c} |->
                        IF x = c THEN NewConnection ELSE before[x]]
               [] e.kind = "disconnect" -> DeleteConnection(before, c)
               [] OTHER ->
                    LET out == Dispatch(before, c, e.message, TRUE).conns
                    IN  IF e.sendOk = {FALSE} THEN DeleteConnection(out, c) ELSE out

NextAtomic ==
    \/ ConnectEnter
    \/ \E c \in 1..MaxSessions : DisconnectEnter(c)
    \/ \E c \in 1..MaxSessions, msg \in RegistryMessages : MessageEnter(c, msg)
    \/ \E i \in 1..MaxOps, ok \in BOOLEAN : PostSettle(i, ok)

SpecAtomic == Init /\ [][NextAtomic]_vars

-----------------------------------------------------------------------------
(* adapters/interfaces.ts: BaseAdapter                                     *)

MaxAdapterCalls == 3

Call(op, at) == [op |-> op, pc |-> at]

\* start() up to its await of onStart: the position of the call and the
\* status it leaves.
StartSync(status) ==
    IF status = "running" THEN [pc |-> "done", status |-> status]
    ELSE [pc |-> "onStart", status |-> "starting"]

\* stop() up to its await of onStop: clearInterval on this.intervalId.
StopSync(status, id, timers) ==
    IF status = "stopped"
    THEN [pc |-> "stopReturned", status |-> status, intervalId |-> id, timers |-> timers]
    ELSE [pc |-> "onStop", status |-> "stopping", intervalId |-> {},
          timers |-> timers \ id]

\* A call of start().
start ==
    LET out == StartSync(adStatus)
    IN  /\ Len(adCalls) < MaxAdapterCalls
        /\ adCalls' = Append(adCalls, Call("start", out.pc))
        /\ adStatus' = out.status
        /\ UNCHANGED <<adInterval, intervalId, adTimers, lastRun>>
        /\ AdapterStep

\* start() from the settling of onStart on: setInterval when the config has
\* an interval, which replaces this.intervalId, then RUNNING; ERROR when
\* onStart rejected.
StartResume(i, ok) ==
    /\ i \in 1..Len(adCalls)
    /\ adCalls[i].pc = "onStart"
    /\ IF ok
       THEN /\ adTimers' = IF adInterval > 0 THEN adTimers \cup {i} ELSE adTimers
            /\ intervalId' = IF adInterval > 0 THEN {i} ELSE intervalId
            /\ adStatus' = "running"
            /\ adCalls' = [adCalls EXCEPT ![i].pc = "done"]
       ELSE /\ adStatus' = "error"
            /\ adCalls' = [adCalls EXCEPT ![i].pc = "threw"]
            /\ UNCHANGED <<adTimers, intervalId>>
    /\ UNCHANGED <<adInterval, lastRun>>
    /\ AdapterStep

\* A call of stop(), or of restart(), which begins with stop().
stop(op) ==
    LET out == StopSync(adStatus, intervalId, adTimers)
    IN  /\ Len(adCalls) < MaxAdapterCalls
        /\ adCalls' = Append(adCalls, Call(op, out.pc))
        /\ adStatus' = out.status
        /\ intervalId' = out.intervalId
        /\ adTimers' = out.timers
        /\ UNCHANGED <<adInterval, lastRun>>
        /\ AdapterStep

\* stop() from the settling of onStop on; restart() goes on to start().
StopResume(i, ok) ==
    /\ i \in 1..Len(adCalls)
    /\ adCalls[i].pc \in {"onStop", "stopReturned"}
    /\ adCalls[i].pc = "stopReturned" => ok
    /\ LET status == IF adCalls[i].pc = "stopReturned" THEN adStatus
                     ELSE IF ok THEN "stopped" ELSE "error"
           out == StartSync(status)
       IN  IF ok /\ adCalls[i].op = "restart"
           THEN /\ adStatus' = out.status
                /\ adCalls' = [adCalls EXCEPT ![i].pc = out.pc]
           ELSE /\ adStatus' = status
                /\ adCalls' = [adCalls EXCEPT ![i].pc = IF ok THEN "done" ELSE "threw"]
    /\ UNCHANGED <<adInterval, intervalId, adTimers, lastRun>>
    /\ AdapterStep

\* The callback of an interval: runWork, which calls performWork only while
\* the status is RUNNING.
runWork(t) ==
    /\ t \in adTimers
    /\ lastRun' = IF adStatus = "running" THEN {t} ELSE lastRun
    /\ UNCHANGED <<adStatus, adInterval, intervalId, adTimers, adCalls>>
    /\ AdapterStep

\* updateConfig with an interval, which validateAdapterConfig accepts.
updateConfig(interval) ==
    /\ adInterval' = interval
    /\ UNCHANGED <<adStatus, intervalId, adTimers, adCalls, lastRun>>
    /\ AdapterStep

NextAdapter ==
    \/ start
    \/ \E interval \in {0, 1} : updateConfig(interval)
    \/ \E op \in {"stop", "restart"} : stop(op)
    \/ \E i \in 1..MaxAdapterCalls, ok \in BOOLEAN : StartResume(i, ok)
    \/ \E i \in 1..MaxAdapterCalls, ok \in BOOLEAN : StopResume(i, ok)
    \/ \E t \in 1..MaxAdapterCalls : runWork(t)

SpecAdapter == Init /\ [][NextAdapter]_vars

-----------------------------------------------------------------------------
(* stores/websocketStore.ts: the connection of the dashboard               *)

MaxSockets == 3

\* new WebSocket(url); byTimer and afterDisconnect are history: the socket
\* was created by the timeout of onclose, and the last call of the
\* application before it was disconnect().
NewSocket(byTimer, afterDisconnect) ==
    [readyState |-> "connecting", byTimer |-> byTimer,
     afterDisconnect |-> afterDisconnect]

\* The body of connect: nothing when the store holds a connected socket,
\* otherwise a new WebSocket.
Connect(byTimer) ==
    IF socket # {} /\ isConnected
    THEN UNCHANGED <<wsSockets, isConnecting>>
    ELSE /\ Len(wsSockets) < MaxSockets
         /\ isConnecting' = TRUE
         /\ wsSockets' = Append(wsSockets,
                                NewSocket(byTimer, byTimer /\ lastCall = "disconnect"))

\* connect(), called by the application.
connect ==
    /\ Connect(FALSE)
    /\ lastCall' = "connect"
    /\ UNCHANGED <<socket, isConnected, reconnects>>
    /\ FrontStep

\* ws.onopen
onopen(s) ==
    /\ s \in 1..Len(wsSockets)
    /\ wsSockets[s].readyState = "connecting"
    /\ wsSockets' = [wsSockets EXCEPT ![s].readyState = "open"]
    /\ isConnected' = TRUE
    /\ isConnecting' = FALSE
    /\ socket' = {s}
    /\ UNCHANGED <<reconnects, lastCall>>
    /\ FrontStep

\* disconnect(), called by the application: socket.close() on the store's
\* socket, then the reset of the state.
disconnect ==
    /\ wsSockets' = [s \in 1..Len(wsSockets) |->
                        IF s \in socket /\ wsSockets[s].readyState = "open"
                        THEN [wsSockets[s] EXCEPT !.readyState = "closing"]
                        ELSE wsSockets[s]]
    /\ isConnected' = FALSE
    /\ isConnecting' = FALSE
    /\ socket' = {}
    /\ lastCall' = "disconnect"
    /\ UNCHANGED reconnects
    /\ FrontStep

\* ws.onclose, after close() or after the server or the network closed the
\* socket: the reset of the state and setTimeout of the reconnect.
onclose(s) ==
    /\ s \in 1..Len(wsSockets)
    /\ wsSockets[s].readyState # "closed"
    /\ wsSockets' = [wsSockets EXCEPT ![s].readyState = "closed"]
    /\ isConnected' = FALSE
    /\ isConnecting' = FALSE
    /\ socket' = {}
    /\ reconnects' = reconnects + 1
    /\ UNCHANGED lastCall
    /\ FrontStep

\* The callback of the timeout, five seconds after onclose: connect(url)
\* unless the store is connected.
Reconnect ==
    /\ reconnects > 0
    /\ reconnects' = reconnects - 1
    /\ IF isConnected THEN UNCHANGED <<wsSockets, isConnecting>> ELSE Connect(TRUE)
    /\ UNCHANGED <<socket, isConnected, lastCall>>
    /\ FrontStep

NextFront ==
    \/ connect
    \/ disconnect
    \/ \E s \in 1..MaxSockets : onopen(s)
    \/ \E s \in 1..MaxSockets : onclose(s)
    \/ Reconnect

SpecFront == Init /\ [][NextFront]_vars

-----------------------------------------------------------------------------
(* Properties of the condition evaluator                                   *)

\* What one condition asks of a payload: the field is there and not null,
\* and the operator relates the field's value to the condition's value.
ConditionHolds(c, P) ==
    /\ c.field \in DOMAIN P
    /\ P[c.field] # JsNull
    /\ LET a == P[c.field]
           b == c.value
           na == JsNumber(a)
           nb == JsNumber(b)
           numeric == ~na.nan /\ ~nb.nan
           within == Includes(JsString(a), JsString(b))
       IN  \/ c.operator = "gt" /\ numeric /\ na.n > nb.n
           \/ c.operator = "gte" /\ numeric /\ na.n >= nb.n
           \/ c.operator = "lt" /\ numeric /\ na.n < nb.n
           \/ c.operator = "lte" /\ numeric /\ na.n <= nb.n
           \/ c.operator = "eq" /\ a = b
           \/ c.operator = "neq" /\ a # b
           \/ c.operator = "contains" /\ within
           \/ c.operator = "not_contains" /\ ~within

\* C8: evaluateAlertConditions(C, P) is true if and only if every condition
\* of C holds of P under its operator (a plain conjunction, no OR and no
\* grouping), and the call leaves both C and P as they were.
C8_EvaluatorIsConjunction ==
    /\ [](evPc = "done" =>
            (evResult <=>
                \A i \in 1..Len(evConditions) : ConditionHolds(evConditions[i], evData)))
    /\ [][evPc' = "done" => (evConditions' = evConditions /\ evData' = evData)]_vars

\* C8 case: a list of two conditions, a numeric one and a containment one,
\* both true of the payload.
C8_Witness ==
    /\ evPc = "done"
    /\ Len(evConditions) = 2
    /\ evConditions[1].operator = "gt"
    /\ evConditions[2].operator = "contains"
    /\ evResult = TRUE

-----------------------------------------------------------------------------
(* Properties of the path from the event processor to the alert processor  *)

\* C4: every telemetry reading the event processor has stored and answered
\* with success has reached the alert processor: an entry was routed to it
\* that carries the reading as detail.event, where its handler reads it.
C4_StoredReadingReachesAlertProcessor ==
    \A x \in eventsTable :
        (/\ IsTelemetry(x)
         /\ ObjectKey(x) \in eventBucket
         /\ [eventId |-> x.id, success |-> TRUE] \in responses)
        => \E entry \in delivered["alertProcessor"] :
              /\ Has(entry.Detail, "event")
              /\ entry.Detail.event = x


-----------------------------------------------------------------------------
(* Properties of the alert dispatcher                                      *)

\* C1: with readings processed one after another, a matching reading of a
\* rule with cooldown T > 0 creates no instance if and only if an instance of
\* the rule for the device was persisted less than T seconds before; a rule
\* with cooldown 0 or unset that the dispatcher evaluates always fires.
C1_CooldownSuppressesExactlyWithinWindow ==
    \A p \in Passes :
        (pc[p] = "returned" /\ ~obs[p].overlapped) =>
            \A d \in obs[p].decided :
                /\ d.cooldown > 0 => (~d.created <=> d.prior)
                /\ (d.cooldown = 0 /\ d.loaded) => d.created

\* The instances the dispatcher has made: those persisted and those in hand.
Made == persisted \cup UNION {alertInstance[p] : p \in Passes}

\* C2: every instance was made for a reading of type sensor_reading from
\* source iot_sensors and a rule that is enabled, unscoped or scoped to the
\* reading's device, and whose conditions all hold of the reading's data; an
\* invocation for an event of another kind returns at once, makes no
\* instance, requests no notification and does not throw.
C2_InstanceOnlyForApplicableMatchingRule ==
    /\ \A x \in Made :
          \E e \in Readings, m \in ruleStore :
              /\ e.id = x.eventId
              /\ e.type = "sensor_reading" /\ e.source = "iot_sensors"
              /\ m.alertId = x.alertId
              /\ m.enabled
              /\ Has(m, "deviceId") => m.deviceId = e.data["deviceId"].v
              /\ x.deviceId = e.data["deviceId"].v
              /\ \A i \in 1..Len(m.conditions) : ConditionHolds(m.conditions[i], e.data)
    /\ \A p \in Passes :
          (/\ pc[p] # "idle"
           /\ ~(event[p].type = "sensor_reading" /\ event[p].source = "iot_sensors"))
          => /\ pc[p] = "returned"
             /\ alertInstance[p] = {}
             /\ \A n \in notifications :
                   n.Detail.alertInstance.eventId # event[p].id

\* C2 case: an instance has been persisted for one reading, and an invocation
\* for an event of another kind has returned.
C2_Witness ==
    /\ persisted # {}
    /\ \E p \in Passes : pc[p] = "returned" /\ event[p].type = "device_status"

\* C3: when the dispatcher has gone through a telemetry reading, every rule
\* of the rule store that is enabled and unscoped or scoped to the reading's
\* device has been evaluated, and one whose conditions match and that has no
\* cooldown has an instance with the rule's severity and status active.
C3_EveryApplicableRuleIsEvaluated ==
    \A p \in Passes :
        (pc[p] = "returned" /\ IsTelemetry(event[p])) =>
            \A m \in obs[p].applicable :
                /\ m.alertId \in obs[p].evaluated
                /\ (/\ evaluateAlertConditions(m.conditions, event[p].data)
                    /\ Cooldown(m) = 0)
                   => \E x \in persisted :
                         /\ x.alertId = m.alertId
                         /\ x.eventId = event[p].id
                         /\ x.severity = m.severity
                         /\ x.status = "active"

\* C5: when the put of one rule's instance has failed, the rules that follow
\* it in the pass and are enabled and in scope have been evaluated all the
\* same by the time the pass is over.
C5_StoreFailureIsIsolatedPerRule ==
    \A p \in Passes :
        (Finished(p) /\ obs[p].storeFailed) =>
            \A i \in (idx[p] + 1)..Len(alertRules[p]) :
                (IsEnabled(alertRules[p][i])
                 /\ InScope(alertRules[p][i], DeviceIdOf(event[p])))
                => alertRules[p][i].alertId \in obs[p].evaluated

\* C6: the table holds one instance for each alert-instance id ever
\* persisted: no put removes or replaces an instance stored before.
C6_EveryPersistedInstanceStaysStored ==
    {x.alertInstanceId : x \in InstanceItems(alertsTable)}
        = {x.alertInstanceId : x \in persisted}

\* C7: a step of the dispatcher (anything but rule management, which alone
\* adds to ruleStore) leaves the rule items of the table as they were.
C7_DispatcherLeavesRulesUnchanged ==
    [][ruleStore' = ruleStore => RuleItems(alertsTable') = RuleItems(alertsTable)]_vars

\* C10: a notification request is emitted only for an instance that has been
\* persisted, with status active; and no step of the notification, be it the
\* hand-off failing or the handler settling the channels, changes the table.
C10_NotificationFollowsPersistence ==
    /\ [](\A n \in notifications :
             /\ StoredItem(n.Detail.alertInstance) \in persisted
             /\ n.Detail.alertInstance.status = "active")
    /\ [][(\/ sent' # sent
           \/ notifications' # notifications
           \/ \E p \in Passes : pc[p] = "notify" /\ pc'[p] = "threw")
          => alertsTable' = alertsTable]_vars

\* C10 case: the handler has settled a notification with a failed channel,
\* and the instance it was about is in the table, active.
C10_Witness ==
    \E o \in sent :
        /\ o.failed # {}
        /\ \E x \in alertsTable :
              /\ IsInstance(x)
              /\ x.alertInstanceId = o.alertInstanceId
              /\ x.status = "active"


-----------------------------------------------------------------------------
(* Properties of the notification handler                                  *)

Listed(rule, c) ==
    \E i \in 1..Len(rule.notificationChannels) : rule.notificationChannels[i] = c

\* A channel the rule lists and has the configuration for.
Configured(rule, c) ==
    /\ Listed(rule, c)
    /\ c = "email" => (Has(rule, "emailRecipients") /\ Len(rule.emailRecipients) >= 1)
    /\ c = "webhook" => (Has(rule, "webhookUrl") /\ rule.webhookUrl # "")

\* C11: the sender of every listed and configured channel is invoked whatever
\* becomes of the other senders, the handler returns only when every invoked
\* sender has settled, and it never ends with an exception.
C11_FanOutSettlesAllAndNeverThrows ==
    /\ nPc # "rejected"
    /\ \A rule \in nRule, c \in NotifyChannels :
          Configured(rule, c) => nSenders[c] # "none"
    /\ nPc = "resolved" => \A c \in NotifyChannels : nSenders[c] # "pending"

\* C11 case: the email send and the webhook post have both failed, the UI
\* sender was invoked, and the handler has returned.
C11_Witness ==
    /\ nPc = "resolved"
    /\ nSends["email"] = "failed"
    /\ nSends["webhook"] = "failed"
    /\ nSenders["ui"] = "fulfilled"

\* C12: an email send is attempted only for a rule that lists the email
\* channel and has at least one recipient; with the list absent or empty no
\* send is attempted and no sender fails.
C12_EmailOnlyWithRecipients ==
    \A rule \in nRule :
        /\ nSends["email"] # "none" =>
              /\ Listed(rule, "email")
              /\ Has(rule, "emailRecipients")
              /\ Len(rule.emailRecipients) >= 1
        /\ (~Has(rule, "emailRecipients") \/ Len(rule.emailRecipients) = 0) =>
              nSenders["email"] = "none"

-----------------------------------------------------------------------------
(* Properties of the subscription messages                                 *)

NoDuplicates(s) == \A i, j \in 1..Len(s) : i # j => s[i] # s[j]

Member(x, s) == \E i \in 1..Len(s) : s[i] = x

\* The last message was handled for a connection of the registry that is
\* still there, and its handler did not throw.
Handled(action) ==
    \E m \in wsMessage, r \in wsResponse :
        /\ m.message.action = action
        /\ m.known
        /\ m.connectionId \in DOMAIN connections
        /\ r.action = action

\* C17: the topic and the device subscriptions of a session never hold a
\* value twice, and once an unsubscribe is handled none of the topics it
\* names is left in the session's subscriptions, however often the topic was
\* subscribed before.
C17_SubscriptionsHoldNoDuplicate ==
    /\ \A c \in DOMAIN connections :
          /\ NoDuplicates(connections[c].subscriptions)
          /\ NoDuplicates(connections[c].deviceSubscriptions)
    /\ Handled("unsubscribe") =>
          \A m \in wsMessage :
             LET named == Spread(Field(m.message.data, "sources"))
                             \o Spread(Field(m.message.data, "types"))
             IN  \A i \in 1..Len(named) :
                    ~Member(named[i], connections[m.connectionId].subscriptions)

\* A session that subscribed to a type, then to the same source twice in one
\* message, holds the source once.
C17_Witness ==
    /\ Handled("subscribe")
    /\ \E m \in wsMessage :
          /\ m.message.data = {[sources |-> Arr(<<"iot_sensors", "iot_sensors">>)]}
          /\ connections[m.connectionId].subscriptions
                = <<"sensor_reading", "iot_sensors">>

\* C18: an unsubscribe with no sources and no types, or no data, leaves the
\* session without topic subscriptions, and an unsubscribe_devices with
\* deviceIds omitted or empty leaves it without device subscriptions.
C18_EmptyFilterClearsTheSet ==
    \A m \in wsMessage :
       LET data == m.message.data
           none(name) == Field(data, name) \subseteq {Arr(<<>>)}
       IN  /\ Handled("unsubscribe") /\ none("sources") /\ none("types")
              => connections[m.connectionId].subscriptions = <<>>
           /\ Handled("unsubscribe_devices") /\ none("deviceIds")
              => connections[m.connectionId].deviceSubscriptions = <<>>

\* C20: the response to a message that carried a requestId carries the same
\* requestId, whether the handler succeeded, answered with an error or threw.
C20_ResponseEchoesRequestId ==
    \A m \in wsMessage, r \in wsResponse :
       m.message.requestId # {} => r.requestId = m.message.requestId

-----------------------------------------------------------------------------
(* Properties of the replays                                               *)

\* The replay delivers nothing in this step.
Silent(r) == replays'[r].delivered = replays[r].delivered

\* C13: a running replay whose session has had stop_replay handled, or has
\* been disconnected or removed from the registry, delivers no further
\* replay_event.
C13_StoppedReplayDeliversNoMore ==
    [][\A r \in DOMAIN replays : replays[r].cancelled => Silent(r)]_vars

\* C14: a replay that was running when a later start_replay of its session
\* was handled is superseded: it delivers no further event, so at most one
\* replay delivers to a session.
C14_EarlierReplayIsSuperseded ==
    [][\A r \in DOMAIN replays : replays[r].superseded => Silent(r)]_vars

\* C15: whatever the order in which the store returned the events of the
\* window, a replay delivers them one at a time and in non-decreasing order
\* of timestamp.
C15_ReplayDeliversInTimestampOrder ==
    /\ [](\A r \in DOMAIN replays :
             \A i, j \in 1..Len(replays[r].delivered) :
                i < j => replays[r].delivered[i].timestamp
                            <= replays[r].delivered[j].timestamp)
    /\ [][\A r \in DOMAIN replays :
             Len(replays'[r].delivered) <= Len(replays[r].delivered) + 1]_vars

\* A replay has delivered the three events of the window, the two of equal
\* timestamp after the earlier one, and returned.
C15_Witness ==
    \E r \in DOMAIN replays :
        /\ replays[r].pc = "done"
        /\ Len(replays[r].delivered) = 3
        /\ replays[r].delivered[1].id = "h2"
        /\ replays[r].delivered[2].id = "h3"

\* C16: when the latest replay of a session has delivered the last event of
\* its list and returned, the session holds no replay configuration, so a
\* session with a configuration is one that is being streamed to.
C16_CompletedReplayClearsConfiguration ==
    \A r \in DOMAIN replays :
        LET c == replays[r].connectionId
        IN  /\ replays[r].pc = "done"
            /\ c \in DOMAIN connections
            /\ \A later \in DOMAIN replays :
                   later > r => replays[later].connectionId # c
            => connections[c].replayConfig = {}

-----------------------------------------------------------------------------
(* Properties of the broadcast                                             *)

\* C19: a broadcast begins a delivery to every session of the registry; a
\* delivery that fails removes its own session from the registry and no
\* other, and leaves the deliveries to the other sessions as they were.
C19_BroadcastFailureRemovesOnlyThatSession ==
    /\ [][broadcast = <<>> /\ broadcast' # <<>> =>
             /\ DOMAIN broadcast' = DOMAIN connections
             /\ \A c \in DOMAIN broadcast' : broadcast'[c] = "pending"]_vars
    /\ [][\A c \in (DOMAIN broadcast) \cap (DOMAIN broadcast') :
             broadcast[c] = "pending" /\ broadcast'[c] = "failed" =>
                /\ connections' = [x \in (DOMAIN connections) \ {c} |-> connections[x]]
                /\ \A x \in (DOMAIN broadcast') \ {c} : broadcast'[x] = broadcast[x]]_vars

\* A broadcast to two sessions: the delivery to the first failed and the
\* session is gone, the delivery to the second succeeded and the session is
\* in the registry.
C19_Witness ==
    /\ DOMAIN broadcast = {1, 2}
    /\ broadcast[1] = "failed"
    /\ broadcast[2] = "ok"
    /\ DOMAIN connections = {2}

-----------------------------------------------------------------------------
(* Properties of unknown actions                                           *)

Recognized ==
    {"subscribe", "unsubscribe", "subscribe_devices", "unsubscribe_devices",
     "subscribe_alerts", "unsubscribe_alerts", "query_events", "start_replay",
     "stop_replay", "ping"}

\* C21: a message whose action is not a recognized one is answered with one
\* response that carries an error and the action of the message, and the
\* session, while it is in the registry, is as it was before the message.
C21_UnknownActionAnsweredWithError ==
    \A m \in wsMessage :
        m.message.action \notin Recognized =>
            /\ Cardinality(wsResponse) = 1
            /\ \A r \in wsResponse :
                  r.error # {} /\ r.action = m.message.action
            /\ m.connectionId \in DOMAIN connections =>
                  {connections[m.connectionId]} = m.before

\* An unknown action sent on a session that holds a subscription.
C21_Witness ==
    \E m \in wsMessage, r \in wsResponse :
        /\ m.message.action = "restart"
        /\ r.error = {"Unknown action"}
        /\ m.connectionId \in DOMAIN connections
        /\ connections[m.connectionId].subscriptions # <<>>

-----------------------------------------------------------------------------
(* Properties of the cooldown lookup                                       *)

\* The instances of the turn's rule for the turn's device that the table
\* held when the lookup was made.
Own(t) ==
    {x \in t.table : /\ Has(x, "triggeredAt")
                     /\ x.alertId = t.rule.alertId
                     /\ x.deviceId = t.deviceId}

\* C22: the lookup for (ruleId, deviceId) returns the instance of the rule
\* for the device with the greatest triggeredAt whenever the table holds
\* one, also when the device has a newer instance of another rule.
C22_LookupReturnsLatestOfTheRule ==
    \A t \in ckTurn :
        t.deviceId # <<>> /\ Own(t) # {} =>
            /\ ckLast # {}
            /\ \A last \in ckLast :
                  /\ last \in Own(t)
                  /\ \A x \in Own(t) : x.triggeredAt <= last.triggeredAt

\* A turn for a rule without device scope that has a positive cooldown.
GlobalTurn(t) ==
    /\ ~Has(t.rule, "deviceId")
    /\ Has(t.rule, "cooldownPeriod") /\ t.rule.cooldownPeriod > 0

-----------------------------------------------------------------------------
(* Properties of the alert statuses                                        *)

Rank(status) ==
    CASE status = "active" -> 0
      [] status = "acknowledged" -> 1
      [] OTHER -> 2

\* The step is the end of an acknowledgeAlert or of a resolveAlert.
Settles == \E c \in storeCalls \ storeCalls' : c.op \in {"acknowledge", "resolve"}

\* C24: an acknowledge or a resolve moves the status of an instance forward
\* only: every instance the list holds afterwards was in the list before
\* with the same or an earlier status (active, then acknowledged), so that
\* neither a resolved instance comes back nor a status goes backward.
C24_StatusMovesForwardOnly ==
    [][Settles =>
          \A j \in 1..Len(activeAlerts') :
             \E i \in 1..Len(activeAlerts) :
                /\ activeAlerts[i].alertInstanceId = activeAlerts'[j].alertInstanceId
                /\ Rank(activeAlerts[i].status) <= Rank(activeAlerts'[j].status)]_vars

\* One instance has been acknowledged and then resolved while the other one
\* is acknowledged.
C24_Witness ==
    /\ storeResolved = {"i1"}
    /\ activeAlerts = <<[alertInstanceId |-> "i2", status |-> "acknowledged"]>>

-----------------------------------------------------------------------------
(* Properties of repeated deliveries                                       *)

\* C25: after events of the same id were delivered more than once the table
\* holds one record for the id, and it is the record the first delivery
\* stored; a repeated delivery in which no call fails is answered success.
C25_OneRecordPerEventId ==
    /\ \A x, y \in epTable : x.id = y.id => x = y
    /\ epFirst \subseteq epTable
    /\ \A i \in 1..Len(epResponses) :
          epResponses[i].repeated /\ epResponses[i].failAt = "none"
              => epResponses[i].success

-----------------------------------------------------------------------------
(* Properties of rule management                                           *)

\* C26: after any sequence of create, update and delete requests every rule
\* of the store has at least one condition, at least one notification
\* channel and, if it has a cooldown, a cooldown that is not negative.
C26_StoredRulesAreValid ==
    \A r \in RuleItems(alertsTable) :
        /\ Has(r, "conditions") /\ Len(r.conditions) >= 1
        /\ Has(r, "notificationChannels") /\ Len(r.notificationChannels) >= 1
        /\ Has(r, "cooldownPeriod") => r.cooldownPeriod >= 0

-----------------------------------------------------------------------------
(* Properties of concurrent handling                                       *)

\* C27: whatever way connects, disconnects and the messages that change
\* the registry are handled concurrently, the registry equals the one that
\* handling the same calls one after the other, each to its end, produces:
\* no subscribe or unsubscribe is lost and no handler writes a session that
\* was deleted while it waited.
C27_RegistryEqualsSerialHandling == connections = Serial(opLog)

C27_Witness ==
    /\ \E i \in 1..Len(opLog) : opLog[i].overlap /\ opLog[i].sendOk = {TRUE}
    /\ \E i \in 1..Len(opLog) : opLog[i].kind = "message" /\ opLog[i].sendOk = {FALSE}
    /\ \A i \in 1..Len(opLog) : ~Pending(opLog[i])

-----------------------------------------------------------------------------
(* Properties of concurrent evaluation passes                              *)

\* C28: when passes run concurrently on readings of one device, two
\* instances of one rule with a cooldown of T > 0 seconds are never
\* persisted for the device less than T seconds apart.
C28_ConcurrentPassesRespectCooldown ==
    \A x, y \in persisted, rule \in ruleStore :
        /\ IsInstance(x) /\ IsInstance(y) /\ x # y
        /\ x.alertId = rule.alertId /\ y.alertId = rule.alertId
        /\ x.deviceId = y.deviceId
        /\ Cooldown(rule) > 0
        => \/ x.triggeredAt - y.triggeredAt >= Cooldown(rule) * 1000
           \/ y.triggeredAt - x.triggeredAt >= Cooldown(rule) * 1000

-----------------------------------------------------------------------------
(* Properties of the adapter life cycle                                    *)

\* C29: whatever way calls of start, stop and restart interleave, the
\* adapter has at most one interval that was set and not cleared, and while
\* its status is STOPPED it has none.
C29_AtMostOneWorkTimer ==
    /\ Cardinality(adTimers) <= 1
    /\ adStatus = "stopped" => adTimers = {}

-----------------------------------------------------------------------------
(* Properties of the dashboard connection                                  *)

\* C30: after disconnect() no WebSocket is created until the application
\* calls connect() again: the reconnect after a close never creates one
\* while disconnect() is the last call of the application.
C30_NoReconnectAfterDisconnect ==
    \A s \in 1..Len(wsSockets) : ~wsSockets[s].afterDisconnect

====
